---------------------------- MODULE Spec2Model ----------------------------
(***************************************************************************)
(* A model of the widget core of Yarrow: the overlay containment layout of *)
(* the drop-down menu (drop_down_menu.rs), the drop-down menu element and  *)
(* its handle, and the toggle button's interaction state machine           *)
(* (toggle_button.rs).                                                     *)
(*                                                                         *)
(* Coordinates are f32 in the source.  They are modelled as integers       *)
(* (whole pixels): the comparisons, additions and subtractions of the code *)
(* are kept as they are, NaN is outside the model.  The widths of text     *)
(* rows, which measure rounds up with f32::ceil, are counted in parts of a *)
(* pixel (SubPixel).                                                       *)
(*                                                                         *)
(* Option<T> is modelled as a sequence of length at most one: << >> is     *)
(* None and <<v>> is Some(v).                                              *)
(***************************************************************************)
EXTENDS Integers, Sequences, FiniteSets, TLC

(***************************************************************************)
(* Bounds of the pure-function specification of layout.                    *)
(***************************************************************************)
MaxPos == 5
NegPos == 2
MaxDim == 4
MaxWin == 4

VARIABLES
    lay_bounds,     \* layout: the argument current_bounds
    lay_window,     \* layout: the argument window_size
    lay_pc,         \* "input", "once" (layout applied), "twice" (applied to its own output)
    lay_info,       \* the LayoutInfo of the first call
    lay_info2       \* the LayoutInfo of the second call

lay_vars == <<lay_bounds, lay_window, lay_pc, lay_info, lay_info2>>

(***************************************************************************)
(* Bounds of the toggle button specification.                              *)
(***************************************************************************)
MaxNotifications == 2      \* CustomStateChanged notifications queued at once
MaxPresses == 2            \* accepted presses in one behaviour

VARIABLES
    tb_inner,            \* SharedState.inner: ToggleButtonInner {state, toggled}
    tb_text,             \* SharedState.inner.label_state: the text of the label
    tb_text_offset,      \* SharedState.inner.label_state: the text offset of the label
    tb_style,            \* SharedState.style: the Rc<ToggleButtonStyle> held (by identity)
    tb_action,           \* ToggleButtonElement.action is Some
    tb_tooltip_message,  \* ToggleButtonElement.tooltip_message is Some
    tb_notifications,    \* view: CustomStateChanged notifications not yet delivered
    tb_hover_timer,      \* view: a hover timeout countdown is running
    tb_pointer_left,     \* view: the pointer left the element since the countdown started
    tb_panicked,         \* the dispatch ended in a panic (send_action(..).unwrap())
    tb_fx,               \* what the last operation asked of its context
    tb_actions,          \* number of invocations of the action callback
    tb_flips             \* number of flips of toggled made by pointer events

tb_vars == <<tb_inner, tb_text, tb_text_offset, tb_style, tb_action, tb_tooltip_message,
             tb_notifications, tb_hover_timer, tb_pointer_left, tb_panicked, tb_fx,
             tb_actions, tb_flips>>

(***************************************************************************)
(* Bounds of the drop-down menu specification.                             *)
(***************************************************************************)
MaxPending == 2            \* CustomStateChanged notifications queued at once

VARIABLES
    dd_shared,               \* SharedState {style, new_entries, open_requested, style_changed}
    dd_entries,              \* DropDownMenuElement.entries: Vec<MenuEntryInner>
    dd_size,                 \* DropDownMenuElement.size
    dd_active,               \* DropDownMenuElement.active
    dd_hovered_entry_index,  \* DropDownMenuElement.hovered_entry_index
    dd_action,               \* DropDownMenuElement.action is Some
    dd_rect,                 \* view: the element's bounding rectangle
    dd_window,               \* view: the window size
    dd_notifications,        \* view: CustomStateChanged notifications not yet delivered
    dd_position_changed,     \* view: a PositionChanged event is not yet delivered
    dd_focused,              \* view: the element holds the temporary focus
    dd_focus_lost,           \* view: an ExclusiveFocus(false) event is not yet delivered
    dd_panicked,             \* the dispatch ended in a panic (send_action(..).unwrap())
    dd_written,              \* the set_entries calls since the last drain
    dd_fx                    \* what the last operation asked of its context

dd_vars == <<dd_shared, dd_entries, dd_size, dd_active, dd_hovered_entry_index,
             dd_action, dd_rect, dd_window, dd_notifications, dd_position_changed,
             dd_focused, dd_focus_lost, dd_panicked, dd_written, dd_fx>>

(***************************************************************************)
(* Bounds of the measurement specification: measure and the scan of the    *)
(* entries as functions of an entry list, a style and a pointer offset.    *)
(***************************************************************************)
MaxLine == 2               \* line heights of the two columns: 0..MaxLine
MaxPad == 1                \* outer padding, divider padding and width: 0..MaxPad
MaxEntries == 3            \* entries of a list
MaxOffset == 8             \* pointer offsets: 0..MaxOffset

VARIABLES
    ms_style,                \* the DropDownMenuStyle measure is called on
    ms_given,                \* the Vec<MenuEntry> the entries were built from
    ms_entries,              \* the Vec<MenuEntryInner> given to measure
    ms_size,                 \* the Size measure returned
    ms_pointer_y,            \* the pointer offset of the scan
    ms_hit,                  \* the index the scan found, if any
    ms_pc                    \* "input", "measured", "hit" ("idle" elsewhere)

ms_vars == <<ms_style, ms_given, ms_entries, ms_size, ms_pointer_y, ms_hit, ms_pc>>

None == << >>
Some(v) == <<v>>

Rect(x, y, w, h) == [x |-> x, y |-> y, w |-> w, h |-> h]
Size(w, h) == [w |-> w, h |-> h]
Point(x, y) == [x |-> x, y |-> y]

\* layout with the right edge snapped to x = window width.
layout_right_edge_at_window(current_bounds, window_size) ==
    LET width_clipped  == current_bounds.w > window_size.w
        width          == IF width_clipped THEN window_size.w ELSE current_bounds.w
        height_clipped == current_bounds.h > window_size.h
        height         == IF height_clipped THEN window_size.h ELSE current_bounds.h
        x_repositioned == \/ current_bounds.x <= 0
                          \/ current_bounds.x + width > window_size.w
        x == IF current_bounds.x <= 0 THEN 0
             ELSE IF current_bounds.x + width > window_size.w
                  THEN window_size.w
                  ELSE current_bounds.x
        y_repositioned == \/ current_bounds.y <= 0
                          \/ current_bounds.y + height > window_size.h
        y == IF current_bounds.y <= 0 THEN 0
             ELSE IF current_bounds.y + height > window_size.h
                  THEN window_size.h - height
                  ELSE current_bounds.y
    IN  [ new_bounds |->
              IF width_clipped \/ height_clipped \/ x_repositioned \/ y_repositioned
              THEN Some(Rect(x, y, width, height))
              ELSE None,
          width_clipped  |-> width_clipped,
          height_clipped |-> height_clipped ]

\* layout with the bottom snap computed from the width.
layout_y_from_width(current_bounds, window_size) ==
    LET width_clipped  == current_bounds.w > window_size.w
        width          == IF width_clipped THEN window_size.w ELSE current_bounds.w
        height_clipped == current_bounds.h > window_size.h
        height         == IF height_clipped THEN window_size.h ELSE current_bounds.h
        x_repositioned == \/ current_bounds.x <= 0
                          \/ current_bounds.x + width > window_size.w
        x == IF current_bounds.x <= 0 THEN 0
             ELSE IF current_bounds.x + width > window_size.w
                  THEN window_size.w - width
                  ELSE current_bounds.x
        y_repositioned == \/ current_bounds.y <= 0
                          \/ current_bounds.y + height > window_size.h
        y == IF current_bounds.y <= 0 THEN 0
             ELSE IF current_bounds.y + height > window_size.h
                  THEN window_size.h - width
                  ELSE current_bounds.y
    IN  [ new_bounds |->
              IF width_clipped \/ height_clipped \/ x_repositioned \/ y_repositioned
              THEN Some(Rect(x, y, width, height))
              ELSE None,
          width_clipped  |-> width_clipped,
          height_clipped |-> height_clipped ]

\* layout that moves a rectangle past the right edge back by its own width,
\* not by the clipped one.
layout_right_edge_by_own_width(current_bounds, window_size) ==
    LET width_clipped  == current_bounds.w > window_size.w
        width          == IF width_clipped THEN window_size.w ELSE current_bounds.w
        height_clipped == current_bounds.h > window_size.h
        height         == IF height_clipped THEN window_size.h ELSE current_bounds.h
        x_repositioned == \/ current_bounds.x <= 0
                          \/ current_bounds.x + width > window_size.w
        x == IF current_bounds.x <= 0 THEN 0
             ELSE IF current_bounds.x + width > window_size.w
                  THEN window_size.w - current_bounds.w
                  ELSE current_bounds.x
        y_repositioned == \/ current_bounds.y <= 0
                          \/ current_bounds.y + height > window_size.h
        y == IF current_bounds.y <= 0 THEN 0
             ELSE IF current_bounds.y + height > window_size.h
                  THEN window_size.h - height
                  ELSE current_bounds.y
    IN  [ new_bounds |->
              IF width_clipped \/ height_clipped \/ x_repositioned \/ y_repositioned
              THEN Some(Rect(x, y, width, height))
              ELSE None,
          width_clipped  |-> width_clipped,
          height_clipped |-> height_clipped ]

\* layout that reports a width equal to the window's as clipped.
layout_clips_at_equal(current_bounds, window_size) ==
    LET width_clipped  == current_bounds.w >= window_size.w
        width          == IF width_clipped THEN window_size.w ELSE current_bounds.w
        height_clipped == current_bounds.h > window_size.h
        height         == IF height_clipped THEN window_size.h ELSE current_bounds.h
        x_repositioned == \/ current_bounds.x <= 0
                          \/ current_bounds.x + width > window_size.w
        x == IF current_bounds.x <= 0 THEN 0
             ELSE IF current_bounds.x + width > window_size.w
                  THEN window_size.w - width
                  ELSE current_bounds.x
        y_repositioned == \/ current_bounds.y <= 0
                          \/ current_bounds.y + height > window_size.h
        y == IF current_bounds.y <= 0 THEN 0
             ELSE IF current_bounds.y + height > window_size.h
                  THEN window_size.h - height
                  ELSE current_bounds.y
    IN  [ new_bounds |->
              IF width_clipped \/ height_clipped \/ x_repositioned \/ y_repositioned
              THEN Some(Rect(x, y, width, height))
              ELSE None,
          width_clipped  |-> width_clipped,
          height_clipped |-> height_clipped ]

(***************************************************************************)
(* fn layout(current_bounds: Rect, window_size: Size) -> LayoutInfo        *)
(***************************************************************************)
layout(current_bounds, window_size) ==
    LET width_clipped  == current_bounds.w > window_size.w
        width          == IF width_clipped THEN window_size.w ELSE current_bounds.w
        height_clipped == current_bounds.h > window_size.h
        height         == IF height_clipped THEN window_size.h ELSE current_bounds.h
        x_repositioned == \/ current_bounds.x <= 0
                          \/ current_bounds.x + width > window_size.w
        x == IF current_bounds.x <= 0 THEN 0
             ELSE IF current_bounds.x + width > window_size.w
                  THEN window_size.w - width
                  ELSE current_bounds.x
        y_repositioned == \/ current_bounds.y <= 0
                          \/ current_bounds.y + height > window_size.h
        y == IF current_bounds.y <= 0 THEN 0
             ELSE IF current_bounds.y + height > window_size.h
                  THEN window_size.h - height
                  ELSE current_bounds.y
    IN  [ new_bounds |->
              IF width_clipped \/ height_clipped \/ x_repositioned \/ y_repositioned
              THEN Some(Rect(x, y, width, height))
              ELSE None,
          width_clipped  |-> width_clipped,
          height_clipped |-> height_clipped ]

(***************************************************************************)
(* What the callers of layout do with its result: the corrected rectangle  *)
(* when there is one, the requested rectangle otherwise.                   *)
(***************************************************************************)
\* A bounds update that takes the corrected origin and drops the size.
BoundsAfterLayout_without_size(rect, info) ==
    IF info.new_bounds /= None
    THEN Rect(info.new_bounds[1].x, info.new_bounds[1].y, 0, 0)
    ELSE rect

BoundsAfterLayout(rect, info) ==
    IF info.new_bounds /= None THEN info.new_bounds[1] ELSE rect

(***************************************************************************)
(* The inputs of layout: every small rectangle and viewport, and the two   *)
(* scenarios of the specification (viewport 800 x 600).                    *)
(***************************************************************************)
ScenarioWindow == Size(800, 600)
ScenarioLeft   == Rect(0 - 10, 50, 200, 100)
ScenarioRight  == Rect(700, 50, 200, 100)

LayoutInputs ==
    { <<Rect(x, y, w, h), Size(vw, vh)>> :
          x \in (0 - NegPos)..MaxPos, y \in (0 - NegPos)..MaxPos,
          w \in 0..MaxDim, h \in 0..MaxDim,
          vw \in 0..MaxWin, vh \in 0..MaxWin }
    \cup { <<ScenarioLeft, ScenarioWindow>>, <<ScenarioRight, ScenarioWindow>> }

NoLayoutInfo == [new_bounds |-> None, width_clipped |-> FALSE, height_clipped |-> FALSE]

LayoutInit ==
    /\ \E in \in LayoutInputs : lay_bounds = in[1] /\ lay_window = in[2]
    /\ lay_pc = "input"
    /\ lay_info = NoLayoutInfo
    /\ lay_info2 = NoLayoutInfo

\* The layout variables of the specifications that are not about layout alone.
LayoutIdle ==
    /\ lay_bounds = Rect(0, 0, 0, 0)
    /\ lay_window = Size(0, 0)
    /\ lay_pc = "idle"
    /\ lay_info = NoLayoutInfo
    /\ lay_info2 = NoLayoutInfo

\* The first call: layout(current_bounds, window_size).
LayoutFirst ==
    /\ lay_pc = "input"
    /\ lay_info' = layout(lay_bounds, lay_window)
    /\ lay_pc' = "once"
    /\ UNCHANGED <<lay_bounds, lay_window, lay_info2>>
    /\ UNCHANGED tb_vars
    /\ UNCHANGED dd_vars
    /\ UNCHANGED ms_vars

\* The second call, on the rectangle the first call returned.
LayoutSecond ==
    /\ lay_pc = "once"
    /\ lay_info.new_bounds /= None
    /\ lay_info2' = layout(lay_info.new_bounds[1], lay_window)
    /\ lay_pc' = "twice"
    /\ UNCHANGED <<lay_bounds, lay_window, lay_info>>
    /\ UNCHANGED tb_vars
    /\ UNCHANGED dd_vars
    /\ UNCHANGED ms_vars


(***************************************************************************)
(*                      The toggle button                                  *)
(***************************************************************************)
ButtonState == {"Idle", "Hovered", "Down", "Disabled"}
PointerButton == {"Primary", "Secondary"}

(***************************************************************************)
(* The ToggleButtonStyle values an application holds, by Rc identity.  A   *)
(* ButtonStylePart is modelled by a number: two parts are equal (PartialEq)*)
(* exactly when their numbers are.                                         *)
(*   1: the default style, six different parts;                            *)
(*   2: hovered looks like idle;                                           *)
(*   3: on looks like off.                                                 *)
(***************************************************************************)
ToggleButtonStyle ==
    << [idle_on |-> 1, hovered_on |-> 2, disabled_on |-> 3,
        idle_off |-> 4, hovered_off |-> 5, disabled_off |-> 6],
       [idle_on |-> 1, hovered_on |-> 1, disabled_on |-> 3,
        idle_off |-> 4, hovered_off |-> 4, disabled_off |-> 6],
       [idle_on |-> 1, hovered_on |-> 2, disabled_on |-> 3,
        idle_off |-> 1, hovered_off |-> 2, disabled_off |-> 3] >>

ToggleStyles == DOMAIN ToggleButtonStyle

\* A label_style that gives a pressed button the part of an idle one.
label_style_down_as_idle(style, state, toggled) ==
    IF toggled
    THEN CASE state \in {"Idle", "Down"} -> style.idle_on
           [] state = "Hovered" -> style.hovered_on
           [] state = "Disabled" -> style.disabled_on
    ELSE CASE state \in {"Idle", "Down"} -> style.idle_off
           [] state = "Hovered" -> style.hovered_off
           [] state = "Disabled" -> style.disabled_off

\* ToggleButtonStyle::label_style: the part it selects (the rest of the
\* LabelStyle does not depend on state or toggled).
label_style(style, state, toggled) ==
    IF toggled
    THEN CASE state = "Idle" -> style.idle_on
           [] state \in {"Hovered", "Down"} -> style.hovered_on
           [] state = "Disabled" -> style.disabled_on
    ELSE CASE state = "Idle" -> style.idle_off
           [] state \in {"Hovered", "Down"} -> style.hovered_off
           [] state = "Disabled" -> style.disabled_off

StateChangeResult(state_changed, needs_repaint) ==
    [state_changed |-> state_changed, needs_repaint |-> needs_repaint]

\* ToggleButtonInner::set_state: the new inner and the StateChangeResult.
set_state(inner, state, style) ==
    IF inner.state /= state
    THEN LET old_part ==
                 IF inner.toggled
                 THEN CASE inner.state = "Idle" -> style.idle_on
                        [] inner.state \in {"Hovered", "Down"} -> style.hovered_on
                        [] inner.state = "Disabled" -> style.disabled_on
                 ELSE CASE inner.state = "Idle" -> style.idle_off
                        [] inner.state \in {"Hovered", "Down"} -> style.hovered_off
                        [] inner.state = "Disabled" -> style.disabled_off
             new_part ==
                 IF inner.toggled
                 THEN CASE state = "Idle" -> style.idle_on
                        [] state \in {"Hovered", "Down"} -> style.hovered_on
                        [] state = "Disabled" -> style.disabled_on
                 ELSE CASE state = "Idle" -> style.idle_off
                        [] state \in {"Hovered", "Down"} -> style.hovered_off
                        [] state = "Disabled" -> style.disabled_off
         IN  [inner |-> [inner EXCEPT !.state = state],
              res   |-> StateChangeResult(TRUE, old_part /= new_part)]
    ELSE [inner |-> inner, res |-> StateChangeResult(FALSE, FALSE)]

\* A set_toggled that reports the change but keeps the old value.
set_toggled_keeps_value(inner, toggled) ==
    IF inner.toggled /= toggled
    THEN [inner |-> inner, res |-> StateChangeResult(TRUE, TRUE)]
    ELSE [inner |-> inner, res |-> StateChangeResult(FALSE, FALSE)]

\* ToggleButtonInner::set_toggled: the new inner and the StateChangeResult.
set_toggled(inner, toggled) ==
    IF inner.toggled /= toggled
    THEN [inner |-> [inner EXCEPT !.toggled = toggled],
          res   |-> StateChangeResult(TRUE, TRUE)]
    ELSE [inner |-> inner, res |-> StateChangeResult(FALSE, FALSE)]

(***************************************************************************)
(* What an operation asked of its context (ElementContext / ElementHandle):*)
(*   op            the operation                                           *)
(*   button        the button of a press or release ("" otherwise)         *)
(*   repaint       cx.request_repaint() was called                         *)
(*   action        the argument the action callback was invoked with       *)
(*   hover_timeout cx.start_hover_timeout() was called                     *)
(*   tooltip       cx.show_tooltip(..) was called                          *)
(*   captured      the handler returned EventCaptureStatus::Captured       *)
(*   notified      el.notify_custom_state_change() was called              *)
(*   rejected      cx.send_action(..) returned an error                    *)
(*   cell_borrowed the handler held its RefMut of shared_state while the   *)
(*                 action callback ran and the action was sent             *)
(*   state_was     inner.state when a release arrived ("" otherwise)       *)
(***************************************************************************)
TbFx(op) ==
    [op |-> op, button |-> "", repaint |-> FALSE, action |-> None,
     hover_timeout |-> FALSE, tooltip |-> FALSE, captured |-> FALSE,
     notified |-> FALSE, rejected |-> FALSE, cell_borrowed |-> FALSE,
     state_was |-> ""]

TbPointerOps == {"Moved", "PointerLeft", "ButtonJustPressed", "ButtonJustReleased"}

\* The texts and the text offsets an application gives the label.
ToggleTexts == {"t", "u"}
ToggleTextOffsets == { Point(0, 0), Point(1, 0) }

\* ToggleButtonElement::create, with the builder's text, text offset, toggled,
\* style, action and tooltip message.
ToggleInit ==
    /\ \E toggled \in BOOLEAN : tb_inner = [state |-> "Idle", toggled |-> toggled]
    /\ tb_text \in ToggleTexts
    /\ tb_text_offset \in ToggleTextOffsets
    /\ tb_style \in ToggleStyles
    /\ tb_action \in BOOLEAN
    /\ tb_tooltip_message \in BOOLEAN
    /\ tb_notifications = 0
    /\ tb_hover_timer = FALSE
    /\ tb_pointer_left = FALSE
    /\ tb_panicked = FALSE
    /\ tb_fx = TbFx("create")
    /\ tb_actions = 0
    /\ tb_flips = 0

ToggleIdle ==
    /\ tb_inner = [state |-> "Idle", toggled |-> FALSE]
    /\ tb_text = "t"
    /\ tb_text_offset = Point(0, 0)
    /\ tb_style = 1
    /\ tb_action = FALSE
    /\ tb_tooltip_message = FALSE
    /\ tb_notifications = 0
    /\ tb_hover_timer = FALSE
    /\ tb_pointer_left = FALSE
    /\ tb_panicked = FALSE
    /\ tb_fx = TbFx("idle")
    /\ tb_actions = 0
    /\ tb_flips = 0

\* on_event, ElementEvent::CustomStateChanged
TbCustomStateChanged ==
    /\ ~tb_panicked
    /\ tb_notifications > 0
    /\ tb_notifications' = tb_notifications - 1
    /\ tb_fx' = [TbFx("CustomStateChanged") EXCEPT !.repaint = TRUE]
    /\ UNCHANGED <<tb_inner, tb_style, tb_action, tb_tooltip_message,
                   tb_hover_timer, tb_pointer_left, tb_panicked, tb_actions, tb_flips>>
    /\ UNCHANGED <<tb_text, tb_text_offset>>
    /\ UNCHANGED lay_vars
    /\ UNCHANGED dd_vars
    /\ UNCHANGED ms_vars

\* The Moved handler without its early return for a disabled button.
TbPointerMoved_no_disabled_check(just_entered) ==
    /\ ~tb_panicked
    /\ LET start == just_entered /\ tb_tooltip_message
           r == IF tb_inner.state = "Idle"
                THEN set_state(tb_inner, "Hovered", ToggleButtonStyle[tb_style])
                ELSE [inner |-> tb_inner, res |-> StateChangeResult(FALSE, FALSE)]
       IN  /\ tb_inner' = r.inner
           /\ tb_hover_timer' = (tb_hover_timer \/ start)
           /\ tb_pointer_left' = (tb_pointer_left /\ ~start)
           /\ tb_fx' = [TbFx("Moved") EXCEPT !.hover_timeout = start,
                                             !.repaint = r.res.needs_repaint,
                                             !.captured = TRUE]
    /\ UNCHANGED <<tb_style, tb_action, tb_tooltip_message, tb_notifications,
                   tb_panicked, tb_actions, tb_flips>>
    /\ UNCHANGED <<tb_text, tb_text_offset>>
    /\ UNCHANGED lay_vars
    /\ UNCHANGED dd_vars
    /\ UNCHANGED ms_vars

\* on_event, PointerEvent::Moved { just_entered, .. }
TbPointerMoved(just_entered) ==
    /\ ~tb_panicked
    /\ IF tb_inner.state = "Disabled"
       THEN /\ tb_fx' = TbFx("Moved")
            /\ UNCHANGED <<tb_inner, tb_hover_timer, tb_pointer_left>>
       ELSE LET start == just_entered /\ tb_tooltip_message
                r == IF tb_inner.state = "Idle"
                     THEN set_state(tb_inner, "Hovered", ToggleButtonStyle[tb_style])
                     ELSE [inner |-> tb_inner, res |-> StateChangeResult(FALSE, FALSE)]
            IN  /\ tb_inner' = r.inner
                /\ tb_hover_timer' = (tb_hover_timer \/ start)
                /\ tb_pointer_left' = (tb_pointer_left /\ ~start)
                /\ tb_fx' = [TbFx("Moved") EXCEPT !.hover_timeout = start,
                                                  !.repaint = r.res.needs_repaint,
                                                  !.captured = TRUE]
    /\ UNCHANGED <<tb_style, tb_action, tb_tooltip_message, tb_notifications,
                   tb_panicked, tb_actions, tb_flips>>
    /\ UNCHANGED <<tb_text, tb_text_offset>>
    /\ UNCHANGED lay_vars
    /\ UNCHANGED dd_vars
    /\ UNCHANGED ms_vars

\* The timer service: a countdown started by cx.start_hover_timeout() has no
\* cancel token, it runs on when the pointer leaves the element.
TimerAfterPointerLeft(running) == running

\* on_event, PointerEvent::PointerLeft
TbPointerLeft ==
    /\ ~tb_panicked
    /\ IF tb_inner.state \in {"Hovered", "Down"}
       THEN LET r == set_state(tb_inner, "Idle", ToggleButtonStyle[tb_style])
            IN  /\ tb_inner' = r.inner
                /\ tb_fx' = [TbFx("PointerLeft") EXCEPT !.repaint = r.res.needs_repaint,
                                                        !.captured = TRUE]
       ELSE /\ tb_fx' = TbFx("PointerLeft")
            /\ UNCHANGED tb_inner
    /\ UNCHANGED <<tb_style, tb_action, tb_tooltip_message, tb_notifications,
                   tb_panicked, tb_actions, tb_flips>>
    /\ tb_hover_timer' = TimerAfterPointerLeft(tb_hover_timer)
    /\ tb_pointer_left' = tb_hover_timer
    /\ UNCHANGED <<tb_text, tb_text_offset>>
    /\ UNCHANGED lay_vars
    /\ UNCHANGED dd_vars
    /\ UNCHANGED ms_vars

\* on_event, PointerEvent::ButtonJustPressed { button, .. }; accepted tells
\* whether the output channel takes the action (send_action(..) is Ok).
TbButtonJustPressed(button, accepted) ==
    /\ ~tb_panicked
    /\ IF button = "Primary" /\ tb_inner.state \in {"Idle", "Hovered"}
       THEN LET r1 == set_state(tb_inner, "Down", ToggleButtonStyle[tb_style])
                r2 == set_toggled(r1.inner, ~r1.inner.toggled)
            IN  /\ tb_flips < MaxPresses
                /\ tb_inner' = r2.inner
                /\ tb_flips' = tb_flips + 1
                /\ tb_actions' = IF tb_action THEN tb_actions + 1 ELSE tb_actions
                /\ tb_panicked' = (tb_action /\ ~accepted)
                /\ tb_fx' = [TbFx("ButtonJustPressed") EXCEPT
                                !.button = button,
                                !.repaint = r1.res.needs_repaint \/ r2.res.needs_repaint,
                                !.action = IF tb_action THEN Some(r2.inner.toggled) ELSE None,
                                !.captured = ~(tb_action /\ ~accepted),
                                !.rejected = (tb_action /\ ~accepted),
                                !.cell_borrowed = tb_action]
       ELSE /\ tb_fx' = [TbFx("ButtonJustPressed") EXCEPT !.button = button]
            /\ UNCHANGED <<tb_inner, tb_flips, tb_actions, tb_panicked>>
    /\ UNCHANGED <<tb_style, tb_action, tb_tooltip_message, tb_notifications,
                   tb_hover_timer, tb_pointer_left>>
    /\ UNCHANGED <<tb_text, tb_text_offset>>
    /\ UNCHANGED lay_vars
    /\ UNCHANGED dd_vars
    /\ UNCHANGED ms_vars

\* A release that goes to Hovered wherever the pointer is.
TbButtonJustReleased_ignores_position(button, within) ==
    /\ ~tb_panicked
    /\ IF button = "Primary" /\ tb_inner.state \in {"Down", "Hovered"}
       THEN LET new_state == "Hovered"
                r == set_state(tb_inner, new_state, ToggleButtonStyle[tb_style])
            IN  /\ tb_inner' = r.inner
                /\ tb_fx' = [TbFx("ButtonJustReleased") EXCEPT
                                !.button = button,
                                !.repaint = r.res.needs_repaint,
                                !.captured = TRUE,
                                !.state_was = tb_inner.state]
       ELSE /\ tb_fx' = [TbFx("ButtonJustReleased") EXCEPT
                                !.button = button,
                                !.state_was = tb_inner.state]
            /\ UNCHANGED tb_inner
    /\ UNCHANGED <<tb_style, tb_action, tb_tooltip_message, tb_notifications,
                   tb_hover_timer, tb_pointer_left, tb_panicked, tb_actions, tb_flips>>
    /\ UNCHANGED <<tb_text, tb_text_offset>>
    /\ UNCHANGED lay_vars
    /\ UNCHANGED dd_vars
    /\ UNCHANGED ms_vars

\* on_event, PointerEvent::ButtonJustReleased { position, button, .. }; within
\* is cx.is_point_within_visible_bounds(position).
TbButtonJustReleased(button, within) ==
    /\ ~tb_panicked
    /\ IF button = "Primary" /\ tb_inner.state \in {"Down", "Hovered"}
       THEN LET new_state == IF within THEN "Hovered" ELSE "Idle"
                r == set_state(tb_inner, new_state, ToggleButtonStyle[tb_style])
            IN  /\ tb_inner' = r.inner
                /\ tb_fx' = [TbFx("ButtonJustReleased") EXCEPT
                                !.button = button,
                                !.repaint = r.res.needs_repaint,
                                !.captured = TRUE,
                                !.state_was = tb_inner.state]
       ELSE /\ tb_fx' = [TbFx("ButtonJustReleased") EXCEPT
                                !.button = button,
                                !.state_was = tb_inner.state]
            /\ UNCHANGED tb_inner
    /\ UNCHANGED <<tb_style, tb_action, tb_tooltip_message, tb_notifications,
                   tb_hover_timer, tb_pointer_left, tb_panicked, tb_actions, tb_flips>>
    /\ UNCHANGED <<tb_text, tb_text_offset>>
    /\ UNCHANGED lay_vars
    /\ UNCHANGED dd_vars
    /\ UNCHANGED ms_vars

\* on_event, PointerEvent::HoverTimeout: the countdown started by
\* cx.start_hover_timeout() has run out.
TbHoverTimeout ==
    /\ ~tb_panicked
    /\ tb_hover_timer
    /\ tb_hover_timer' = FALSE
    /\ tb_pointer_left' = FALSE
    /\ tb_fx' = [TbFx("HoverTimeout") EXCEPT !.tooltip = tb_tooltip_message]
    /\ UNCHANGED <<tb_inner, tb_style, tb_action, tb_tooltip_message,
                   tb_notifications, tb_panicked, tb_actions, tb_flips>>
    /\ UNCHANGED <<tb_text, tb_text_offset>>
    /\ UNCHANGED lay_vars
    /\ UNCHANGED dd_vars
    /\ UNCHANGED ms_vars

\* on_event, any other event (the `_ => {}` arm).
TbOtherEvent ==
    /\ ~tb_panicked
    /\ tb_fx' = TbFx("Other")
    /\ UNCHANGED <<tb_inner, tb_style, tb_action, tb_tooltip_message,
                   tb_notifications, tb_hover_timer, tb_pointer_left, tb_panicked, tb_actions, tb_flips>>
    /\ UNCHANGED <<tb_text, tb_text_offset>>
    /\ UNCHANGED lay_vars
    /\ UNCHANGED dd_vars
    /\ UNCHANGED ms_vars

\* LabelInner::set_text, as ToggleButtonInner::set_text documents it: the
\* label takes the text, and the result tells whether the text has changed.
LabelInner_set_text(current, text) ==
    [text |-> text, changed |-> current /= text]

\* LabelInner::set_text_offset, as ToggleButtonInner::set_text_offset
\* documents it: the label takes the offset, and the result tells whether the
\* offset has changed.
LabelInner_set_text_offset(current, offset) ==
    [text_offset |-> offset, changed |-> current /= offset]

\* ToggleButton::set_text
TbSetText(text) ==
    /\ ~tb_panicked
    /\ LET r == LabelInner_set_text(tb_text, text)
       IN  IF r.changed
           THEN /\ tb_notifications < MaxNotifications
                /\ tb_text' = r.text
                /\ tb_notifications' = tb_notifications + 1
                /\ tb_fx' = [TbFx("set_text") EXCEPT !.notified = TRUE]
           ELSE /\ tb_fx' = TbFx("set_text")
                /\ UNCHANGED <<tb_text, tb_notifications>>
    /\ UNCHANGED <<tb_inner, tb_text_offset, tb_style, tb_action, tb_tooltip_message,
                   tb_hover_timer, tb_pointer_left, tb_panicked, tb_actions, tb_flips>>
    /\ UNCHANGED lay_vars
    /\ UNCHANGED dd_vars
    /\ UNCHANGED ms_vars

\* ToggleButton::set_text_offset
TbSetTextOffset(offset) ==
    /\ ~tb_panicked
    /\ LET r == LabelInner_set_text_offset(tb_text_offset, offset)
       IN  IF r.changed
           THEN /\ tb_notifications < MaxNotifications
                /\ tb_text_offset' = r.text_offset
                /\ tb_notifications' = tb_notifications + 1
                /\ tb_fx' = [TbFx("set_text_offset") EXCEPT !.notified = TRUE]
           ELSE /\ tb_fx' = TbFx("set_text_offset")
                /\ UNCHANGED <<tb_text_offset, tb_notifications>>
    /\ UNCHANGED <<tb_inner, tb_text, tb_style, tb_action, tb_tooltip_message,
                   tb_hover_timer, tb_pointer_left, tb_panicked, tb_actions, tb_flips>>
    /\ UNCHANGED lay_vars
    /\ UNCHANGED dd_vars
    /\ UNCHANGED ms_vars

\* ToggleButton::set_style
TbSetStyle(style) ==
    /\ ~tb_panicked
    /\ IF tb_style /= style
       THEN /\ tb_notifications < MaxNotifications
            /\ tb_style' = style
            /\ tb_notifications' = tb_notifications + 1
            /\ tb_fx' = [TbFx("set_style") EXCEPT !.notified = TRUE]
       ELSE /\ tb_fx' = TbFx("set_style")
            /\ UNCHANGED <<tb_style, tb_notifications>>
    /\ UNCHANGED <<tb_inner, tb_action, tb_tooltip_message, tb_hover_timer, tb_pointer_left,
                   tb_panicked, tb_actions, tb_flips>>
    /\ UNCHANGED <<tb_text, tb_text_offset>>
    /\ UNCHANGED lay_vars
    /\ UNCHANGED dd_vars
    /\ UNCHANGED ms_vars

\* ToggleButton::set_toggled
TbSetToggled(toggled) ==
    /\ ~tb_panicked
    /\ IF tb_inner.toggled /= toggled
       THEN /\ tb_notifications < MaxNotifications
            /\ tb_inner' = set_toggled(tb_inner, toggled).inner
            /\ tb_notifications' = tb_notifications + 1
            /\ tb_fx' = [TbFx("set_toggled") EXCEPT !.notified = TRUE]
       ELSE /\ tb_fx' = TbFx("set_toggled")
            /\ UNCHANGED <<tb_inner, tb_notifications>>
    /\ UNCHANGED <<tb_style, tb_action, tb_tooltip_message, tb_hover_timer, tb_pointer_left,
                   tb_panicked, tb_actions, tb_flips>>
    /\ UNCHANGED <<tb_text, tb_text_offset>>
    /\ UNCHANGED lay_vars
    /\ UNCHANGED dd_vars
    /\ UNCHANGED ms_vars

\* A set_disabled(false) that resets the state to Idle whatever it is.
TbSetDisabled_enables_always(disabled) ==
    /\ ~tb_panicked
    /\ IF disabled /\ tb_inner.state /= "Disabled"
       THEN /\ tb_notifications < MaxNotifications
            /\ tb_inner' = set_state(tb_inner, "Disabled", ToggleButtonStyle[tb_style]).inner
            /\ tb_notifications' = tb_notifications + 1
            /\ tb_fx' = [TbFx("set_disabled") EXCEPT !.notified = TRUE]
       ELSE IF ~disabled
       THEN /\ tb_notifications < MaxNotifications
            /\ tb_inner' = set_state(tb_inner, "Idle", ToggleButtonStyle[tb_style]).inner
            /\ tb_notifications' = tb_notifications + 1
            /\ tb_fx' = [TbFx("set_disabled") EXCEPT !.notified = TRUE]
       ELSE /\ tb_fx' = TbFx("set_disabled")
            /\ UNCHANGED <<tb_inner, tb_notifications>>
    /\ UNCHANGED <<tb_style, tb_action, tb_tooltip_message, tb_hover_timer, tb_pointer_left,
                   tb_panicked, tb_actions, tb_flips>>
    /\ UNCHANGED <<tb_text, tb_text_offset>>
    /\ UNCHANGED lay_vars
    /\ UNCHANGED dd_vars
    /\ UNCHANGED ms_vars

\* ToggleButton::set_disabled
TbSetDisabled(disabled) ==
    /\ ~tb_panicked
    /\ IF disabled /\ tb_inner.state /= "Disabled"
       THEN /\ tb_notifications < MaxNotifications
            /\ tb_inner' = set_state(tb_inner, "Disabled", ToggleButtonStyle[tb_style]).inner
            /\ tb_notifications' = tb_notifications + 1
            /\ tb_fx' = [TbFx("set_disabled") EXCEPT !.notified = TRUE]
       ELSE IF ~disabled /\ tb_inner.state = "Disabled"
       THEN /\ tb_notifications < MaxNotifications
            /\ tb_inner' = set_state(tb_inner, "Idle", ToggleButtonStyle[tb_style]).inner
            /\ tb_notifications' = tb_notifications + 1
            /\ tb_fx' = [TbFx("set_disabled") EXCEPT !.notified = TRUE]
       ELSE /\ tb_fx' = TbFx("set_disabled")
            /\ UNCHANGED <<tb_inner, tb_notifications>>
    /\ UNCHANGED <<tb_style, tb_action, tb_tooltip_message, tb_hover_timer, tb_pointer_left,
                   tb_panicked, tb_actions, tb_flips>>
    /\ UNCHANGED <<tb_text, tb_text_offset>>
    /\ UNCHANGED lay_vars
    /\ UNCHANGED dd_vars
    /\ UNCHANGED ms_vars

(***************************************************************************)
(*                      The drop-down menu                                 *)
(***************************************************************************)
Max(a, b) == IF a > b THEN a ELSE b

\* The width of a row of text is an f32 that need not be a whole number of
\* pixels: the model counts row widths in SubPixel-ths of a pixel.
SubPixel == 2

\* A rounding that drops the part of a pixel.
ceil_rounds_down(x) == x \div SubPixel

\* f32::ceil of a width of x SubPixel-ths of a pixel, in whole pixels.
ceil(x) == (x + (SubPixel - 1)) \div SubPixel

(***************************************************************************)
(* The DropDownMenuStyle values an application holds, by Rc identity.      *)
(* text_width and text_width_part stand for the text measurement of the    *)
(* style's text properties: a width of text_width pixels and               *)
(* text_width_part SubPixel-ths of a pixel.  Style 3 is the style of the   *)
(* specification's scenario (row height 20, divider width 1, divider       *)
(* padding 2, outer padding 4).  Style 4 has no outer padding.              *)
(***************************************************************************)
DropDownMenuStyle ==
    << [left_line_height |-> 1, left_padding_top |-> 0, left_padding_bottom |-> 1,
        right_line_height |-> 1, right_padding_top |-> 0, right_padding_bottom |-> 0,
        outer_padding |-> 1, divider_width |-> 1, divider_padding |-> 0,
        text_width |-> 0, text_width_part |-> 1],
       [left_line_height |-> 1, left_padding_top |-> 0, left_padding_bottom |-> 0,
        right_line_height |-> 2, right_padding_top |-> 0, right_padding_bottom |-> 1,
        outer_padding |-> 1, divider_width |-> 1, divider_padding |-> 1,
        text_width |-> 3, text_width_part |-> 0],
       [left_line_height |-> 10, left_padding_top |-> 5, left_padding_bottom |-> 5,
        right_line_height |-> 10, right_padding_top |-> 5, right_padding_bottom |-> 5,
        outer_padding |-> 4, divider_width |-> 1, divider_padding |-> 2,
        text_width |-> 40, text_width_part |-> 0],
       [left_line_height |-> 1, left_padding_top |-> 0, left_padding_bottom |-> 0,
        right_line_height |-> 1, right_padding_top |-> 0, right_padding_bottom |-> 0,
        outer_padding |-> 0, divider_width |-> 1, divider_padding |-> 0,
        text_width |-> 1, text_width_part |-> 0] >>

\* The styles the handle of the menu specification is given.
MenuStyles == {1, 2}

\* MenuEntry: Option {left_text, right_text, unique_id} or Divider.  The two
\* texts of an Option are told apart by its unique_id.
MenuOption(unique_id) == [kind |-> "Option", unique_id |-> unique_id]
MenuDivider == [kind |-> "Divider", unique_id |-> 0]

\* The entry lists (Vec<MenuEntry>) an application gives the menu: none, two
\* Options around a Divider, a Divider before an Option.
MenuEntryLists ==
    { << >>,
      << MenuOption(0), MenuDivider, MenuOption(1) >>,
      << MenuDivider, MenuOption(2) >> }

\* The styles and the entry lists of an application whose menu may have no
\* outer padding and no Option: a padded and an unpadded style; no entry, a
\* Divider alone, a Divider before an Option.
UnpaddedMenuStyles == {2, 4}
UnpaddedMenuEntryLists ==
    { << >>,
      << MenuDivider >>,
      << MenuDivider, MenuOption(2) >> }

\* MenuEntryInner: Option {dual_label, start_y, end_y, unique_id} or
\* Divider {y}.  style is the style the dual label was built or restyled
\* with; a field an entry does not have is 0.
MenuEntryInner(entry, style) ==
    IF entry.kind = "Option"
    THEN [kind |-> "Option", unique_id |-> entry.unique_id, style |-> style,
          start_y |-> 0, end_y |-> 0, y |-> 0]
    ELSE [kind |-> "Divider", unique_id |-> 0, style |-> 0,
          start_y |-> 0, end_y |-> 0, y |-> 0]

\* The `.into_iter().map(|entry| ..).collect()` of create and of the drain.
build_entries(new_entries, style) ==
    [i \in 1..Len(new_entries) |-> MenuEntryInner(new_entries[i], style)]

\* The MenuEntry list an inner entry list was built from.
MenuEntriesOf(entries) ==
    [i \in 1..Len(entries) |-> [kind |-> entries[i].kind, unique_id |-> entries[i].unique_id]]

\* A row height that adds the two columns instead of taking the higher one.
text_row_height_adds_columns(style) ==
    (style.left_line_height + style.left_padding_top + style.left_padding_bottom)
        + (style.right_line_height + style.right_padding_top + style.right_padding_bottom)

\* DropDownMenuStyle::text_row_height
text_row_height(style) ==
    Max(style.left_line_height + style.left_padding_top + style.left_padding_bottom,
        style.right_line_height + style.right_padding_top + style.right_padding_bottom)

\* DualLabelInner::desired_padded_size: the size of the padded row of an
\* Option, from the text measurement service.  The width is counted in
\* SubPixel-ths of a pixel, the height in pixels.
desired_padded_size(entry, style) ==
    Size(SubPixel * (style.text_width + entry.unique_id) + style.text_width_part,
         text_row_height(style))

\* A loop that places an Option but does not advance the running offset
\* past its row.
RECURSIVE measure_loop_rows_not_advanced(_, _, _, _)
measure_loop_rows_not_advanced(style, entries, total_height, max_width) ==
    IF entries = << >>
    THEN [entries |-> << >>, total_height |-> total_height, max_width |-> max_width]
    ELSE LET entry == Head(entries)
         IN  IF entry.kind = "Option"
             THEN LET size == desired_padded_size(entry, style)
                      end  == total_height + text_row_height(style)
                      rest == measure_loop_rows_not_advanced(style, Tail(entries),
                                  total_height, Max(max_width, size.w))
                  IN  [rest EXCEPT !.entries =
                          <<[entry EXCEPT !.start_y = total_height, !.end_y = end]>>
                              \o rest.entries]
             ELSE LET rest == measure_loop_rows_not_advanced(style, Tail(entries),
                                  total_height + style.divider_width
                                      + style.divider_padding + style.divider_padding,
                                  max_width)
                  IN  [rest EXCEPT !.entries =
                          <<[entry EXCEPT !.y = total_height + style.divider_padding]>>
                              \o rest.entries]

\* The loop of DropDownMenuStyle::measure over the entries from the first
\* one on, with the running total_height (pixels) and max_width
\* (SubPixel-ths of a pixel).
RECURSIVE measure_loop(_, _, _, _)
measure_loop(style, entries, total_height, max_width) ==
    IF entries = << >>
    THEN [entries |-> << >>, total_height |-> total_height, max_width |-> max_width]
    ELSE LET entry == Head(entries)
         IN  IF entry.kind = "Option"
             THEN LET size == desired_padded_size(entry, style)
                      end  == total_height + text_row_height(style)
                      rest == measure_loop(style, Tail(entries), end,
                                           Max(max_width, size.w))
                  IN  [rest EXCEPT !.entries =
                          <<[entry EXCEPT !.start_y = total_height, !.end_y = end]>>
                              \o rest.entries]
             ELSE LET rest == measure_loop(style, Tail(entries),
                                  total_height + style.divider_width
                                      + style.divider_padding + style.divider_padding,
                                  max_width)
                  IN  [rest EXCEPT !.entries =
                          <<[entry EXCEPT !.y = total_height + style.divider_padding]>>
                              \o rest.entries]

\* A measure that starts the running offset at 0, not at the outer padding.
measure_without_outer_padding(style, entries) ==
    IF entries = << >>
    THEN [entries |-> entries, size |-> Size(0, 0)]
    ELSE LET r == measure_loop(style, entries, 0, 0)
         IN  [entries |-> r.entries,
              size |-> Size(ceil(r.max_width) + (style.outer_padding * 2),
                            r.total_height + style.outer_padding)]

\* DropDownMenuStyle::measure: the entries with their offsets, and the size.
measure(style, entries) ==
    IF entries = << >>
    THEN [entries |-> entries, size |-> Size(0, 0)]
    ELSE LET r == measure_loop(style, entries, style.outer_padding, 0)
         IN  [entries |-> r.entries,
              size |-> Size(ceil(r.max_width) + (style.outer_padding * 2),
                            r.total_height + style.outer_padding)]

\* euclid's Rect::contains: the rectangle is half-open.
contains(rect, p) ==
    /\ rect.x <= p.x
    /\ p.x < rect.x + rect.w
    /\ rect.y <= p.y
    /\ p.y < rect.y + rect.h

\* The scan of the entries in on_event (Moved and ButtonJustPressed): the
\* index of the first Option whose row holds pointer_y, if any.
RECURSIVE hit_test_from(_, _, _)
hit_test_from(entries, pointer_y, i) ==
    IF i > Len(entries) THEN None
    ELSE IF /\ entries[i].kind = "Option"
            /\ pointer_y >= entries[i].start_y
            /\ pointer_y < entries[i].end_y
         THEN Some(i)
         ELSE hit_test_from(entries, pointer_y, i + 1)

\* A scan that starts at the second entry.
hit_test_skips_first(entries, pointer_y) == hit_test_from(entries, pointer_y, 2)

\* The scan from the first entry on.
hit_test(entries, pointer_y) == hit_test_from(entries, pointer_y, 1)

(***************************************************************************)
(* What an operation asked of its context:                                 *)
(*   op            the operation                                           *)
(*   set_rect      the rectangle given to cx.set_bounding_rect(..)         *)
(*   repaint       cx.request_repaint() was called                         *)
(*   steal_focus   cx.steal_temporary_focus() was called                   *)
(*   listen_off    cx.listen_to_pointer_clicked_off() was called           *)
(*   release_focus cx.release_focus() was called                           *)
(*   action        the unique_id the action callback was invoked with      *)
(*   captured      the handler returned EventCaptureStatus::Captured       *)
(*   notified      el.notify_custom_state_change() was called              *)
(*   layouts       the number of calls of layout                           *)
(*   measures      the number of calls of measure                          *)
(*   restyled      the restyle pass over the entries ran                   *)
(*   drained       the set_entries calls a drain found: the last list      *)
(*                 written, and whether it overwrote a different one       *)
(*   rejected      cx.send_action(..) returned an error                    *)
(*   cell_borrowed the handler held a borrow of shared_state while the     *)
(*                 action callback ran and the action was sent             *)
(*   notified_in_borrow  the handle held its RefMut of shared_state when   *)
(*                 it called el.notify_custom_state_change()               *)
(*   read_order    the fields of shared_state in the order in which the    *)
(*                 handler read and cleared them                           *)
(*   style_changed the value of shared_state.style_changed the drain read  *)
(***************************************************************************)
NoWrites == [last |-> None, differ |-> FALSE]

DdFx(op) ==
    [op |-> op, set_rect |-> None, repaint |-> FALSE, steal_focus |-> FALSE,
     listen_off |-> FALSE, release_focus |-> FALSE, action |-> None,
     captured |-> FALSE, notified |-> FALSE, layouts |-> 0, measures |-> 0,
     restyled |-> FALSE, drained |-> NoWrites, rejected |-> FALSE,
     cell_borrowed |-> FALSE, notified_in_borrow |-> FALSE,
     read_order |-> << >>, style_changed |-> FALSE]

(***************************************************************************)
(* The view.  A bounds update moves the element; when its origin changes   *)
(* the view owes the element a PositionChanged event.                      *)
(***************************************************************************)
Origin(rect) == Point(rect.x, rect.y)

\* cx.rect() after the handler's cx.set_bounding_rect(..), if it called it.
RectAfter(rect, set_rect) == IF set_rect /= None THEN set_rect[1] ELSE rect

\* cx.release_focus(): the element loses the focus it holds and is owed an
\* ExclusiveFocus(false) event.
FocusAfterRelease(focused, focus_lost, released) ==
    IF released /\ focused
    THEN [focused |-> FALSE, focus_lost |-> TRUE]
    ELSE [focused |-> focused, focus_lost |-> focus_lost]

\* The positions the handle puts the menu at: left of the window, and below it.
MenuPositions == { Point(0 - 1, 1), Point(2, 6) }
MenuWindows == { Size(6, 5) }
\* The positions of the pointer: down the column x = 1, and right of the window.
PointerPositions == { Point(1, y) : y \in {0, 1, 3, 4, 6} } \cup { Point(6, 1) }

\* DropDownMenuElement::create, with the builder's entries, style and
\* position and an on_entry_selected action, in a window of some size; the
\* style is one of styles, the entries are one of lists.
MenuInitWith(styles, lists) ==
    /\ \E style \in styles, entries \in lists, position \in MenuPositions :
          LET m == measure(DropDownMenuStyle[style], build_entries(entries, style))
          IN  /\ dd_shared = [style |-> style, new_entries |-> None,
                              open_requested |-> FALSE, style_changed |-> FALSE]
              /\ dd_entries = m.entries
              /\ dd_size = m.size
              /\ dd_rect = Rect(position.x, position.y, 0, 0)
    /\ dd_active = FALSE
    /\ dd_hovered_entry_index = None
    /\ dd_action = TRUE
    /\ dd_window \in MenuWindows
    /\ dd_notifications = 0
    /\ dd_position_changed = FALSE
    /\ dd_focused = FALSE
    /\ dd_focus_lost = FALSE
    /\ dd_panicked = FALSE
    /\ dd_written = NoWrites
    /\ dd_fx = DdFx("create")

MenuInit == MenuInitWith(MenuStyles, MenuEntryLists)

MenuIdle ==
    /\ dd_shared = [style |-> 1, new_entries |-> None,
                    open_requested |-> FALSE, style_changed |-> FALSE]
    /\ dd_entries = << >>
    /\ dd_size = Size(0, 0)
    /\ dd_rect = Rect(0, 0, 0, 0)
    /\ dd_active = FALSE
    /\ dd_hovered_entry_index = None
    /\ dd_action = FALSE
    /\ dd_window = Size(0, 0)
    /\ dd_notifications = 0
    /\ dd_position_changed = FALSE
    /\ dd_focused = FALSE
    /\ dd_focus_lost = FALSE
    /\ dd_panicked = FALSE
    /\ dd_written = NoWrites
    /\ dd_fx = DdFx("idle")

\* The view's bookkeeping after a handler that asked for set_rect (or for
\* nothing), stole the temporary focus or released it; pending and focus_lost
\* tell whether a PositionChanged and an ExclusiveFocus(false) event are
\* still owed.
ViewAfterHandler(set_rect, stolen, released, pending, focus_lost) ==
    LET f == FocusAfterRelease(dd_focused \/ stolen, focus_lost, released)
        new_rect == RectAfter(dd_rect, set_rect)
    IN  /\ dd_rect' = new_rect
        /\ dd_position_changed' = (pending \/ Origin(new_rect) /= Origin(dd_rect))
        /\ dd_focused' = f.focused
        /\ dd_focus_lost' = f.focus_lost

\* The order in which the CustomStateChanged arm reads and clears the fields
\* of shared_state: open_requested, then style_changed, then
\* new_entries.take().
DrainOrder == <<"open_requested", "style_changed", "new_entries">>

\* A drain that measures on every delivery, pending writes or not.
DdCustomStateChanged_measures_always ==
    /\ ~dd_panicked
    /\ dd_notifications > 0
    /\ LET opening    == dd_shared.open_requested /\ ~dd_active
           active     == dd_active \/ opening
           has_new    == dd_shared.new_entries /= None
           do_restyle == dd_shared.style_changed /\ ~has_new
           do_measure == TRUE
           show       == opening /\ ~do_measure
           style      == DropDownMenuStyle[dd_shared.style]
       IN  \E entries1 \in { IF has_new
                               THEN build_entries(dd_shared.new_entries[1], dd_shared.style)
                               ELSE dd_entries } :
           \E entries2 \in { IF do_restyle
                               THEN [i \in 1..Len(entries1) |->
                                        IF entries1[i].kind = "Option"
                                        THEN [entries1[i] EXCEPT !.style = dd_shared.style]
                                        ELSE entries1[i]]
                               ELSE entries1 } :
           \E m \in { measure(style, entries2) } :
           \E size \in { IF do_measure THEN m.size ELSE dd_size } :
           \E rect \in { Rect(dd_rect.x, dd_rect.y, size.w, size.h) } :
           \E set_rect \in { IF do_measure /\ ~active
                               THEN Some(Rect(dd_rect.x, dd_rect.y, 0, 0))
                               ELSE IF do_measure \/ show
                               THEN Some(BoundsAfterLayout(rect, layout(rect, dd_window)))
                               ELSE None } :
           /\ dd_shared' = [dd_shared EXCEPT !.open_requested = FALSE,
                                             !.style_changed = FALSE,
                                             !.new_entries = None]
           /\ dd_active' = active
           /\ dd_entries' = IF do_measure THEN m.entries ELSE entries2
           /\ dd_size' = size
           /\ ViewAfterHandler(set_rect, opening, FALSE, dd_position_changed, dd_focus_lost)
           /\ dd_fx' = [DdFx("CustomStateChanged") EXCEPT
                           !.set_rect = set_rect,
                           !.repaint = do_measure /\ active,
                           !.steal_focus = opening,
                           !.listen_off = opening,
                           !.layouts = IF (do_measure /\ active) \/ show THEN 1 ELSE 0,
                           !.measures = IF do_measure THEN 1 ELSE 0,
                           !.restyled = do_restyle,
                           !.drained = dd_written,
                           !.read_order = DrainOrder,
                           !.style_changed = dd_shared.style_changed]
    /\ dd_notifications' = dd_notifications - 1
    /\ dd_written' = NoWrites
    /\ UNCHANGED <<dd_hovered_entry_index, dd_action, dd_window, dd_panicked>>
    /\ UNCHANGED <<lay_vars, tb_vars, ms_vars>>

\* A drain that keeps do_restyle when it has taken new entries.
DdCustomStateChanged_restyles_new_entries ==
    /\ ~dd_panicked
    /\ dd_notifications > 0
    /\ LET opening    == dd_shared.open_requested /\ ~dd_active
           active     == dd_active \/ opening
           has_new    == dd_shared.new_entries /= None
           do_restyle == dd_shared.style_changed
           do_measure == has_new \/ do_restyle
           show       == opening /\ ~do_measure
           style      == DropDownMenuStyle[dd_shared.style]
       IN  \E entries1 \in { IF has_new
                               THEN build_entries(dd_shared.new_entries[1], dd_shared.style)
                               ELSE dd_entries } :
           \E entries2 \in { IF do_restyle
                               THEN [i \in 1..Len(entries1) |->
                                        IF entries1[i].kind = "Option"
                                        THEN [entries1[i] EXCEPT !.style = dd_shared.style]
                                        ELSE entries1[i]]
                               ELSE entries1 } :
           \E m \in { measure(style, entries2) } :
           \E size \in { IF do_measure THEN m.size ELSE dd_size } :
           \E rect \in { Rect(dd_rect.x, dd_rect.y, size.w, size.h) } :
           \E set_rect \in { IF do_measure /\ ~active
                               THEN Some(Rect(dd_rect.x, dd_rect.y, 0, 0))
                               ELSE IF do_measure \/ show
                               THEN Some(BoundsAfterLayout(rect, layout(rect, dd_window)))
                               ELSE None } :
           /\ dd_shared' = [dd_shared EXCEPT !.open_requested = FALSE,
                                             !.style_changed = FALSE,
                                             !.new_entries = None]
           /\ dd_active' = active
           /\ dd_entries' = IF do_measure THEN m.entries ELSE entries2
           /\ dd_size' = size
           /\ ViewAfterHandler(set_rect, opening, FALSE, dd_position_changed, dd_focus_lost)
           /\ dd_fx' = [DdFx("CustomStateChanged") EXCEPT
                           !.set_rect = set_rect,
                           !.repaint = do_measure /\ active,
                           !.steal_focus = opening,
                           !.listen_off = opening,
                           !.layouts = IF (do_measure /\ active) \/ show THEN 1 ELSE 0,
                           !.measures = IF do_measure THEN 1 ELSE 0,
                           !.restyled = do_restyle,
                           !.drained = dd_written,
                           !.read_order = DrainOrder,
                           !.style_changed = dd_shared.style_changed]
    /\ dd_notifications' = dd_notifications - 1
    /\ dd_written' = NoWrites
    /\ UNCHANGED <<dd_hovered_entry_index, dd_action, dd_window, dd_panicked>>
    /\ UNCHANGED <<lay_vars, tb_vars, ms_vars>>

\* on_event, ElementEvent::CustomStateChanged: the drain of the shared state.
DdCustomStateChanged ==
    /\ ~dd_panicked
    /\ dd_notifications > 0
    /\ LET opening    == dd_shared.open_requested /\ ~dd_active
           active     == dd_active \/ opening
           has_new    == dd_shared.new_entries /= None
           do_restyle == dd_shared.style_changed /\ ~has_new
           do_measure == has_new \/ do_restyle
           show       == opening /\ ~do_measure
           style      == DropDownMenuStyle[dd_shared.style]
       IN  \E entries1 \in { IF has_new
                               THEN build_entries(dd_shared.new_entries[1], dd_shared.style)
                               ELSE dd_entries } :
           \E entries2 \in { IF do_restyle
                               THEN [i \in 1..Len(entries1) |->
                                        IF entries1[i].kind = "Option"
                                        THEN [entries1[i] EXCEPT !.style = dd_shared.style]
                                        ELSE entries1[i]]
                               ELSE entries1 } :
           \E m \in { measure(style, entries2) } :
           \E size \in { IF do_measure THEN m.size ELSE dd_size } :
           \E rect \in { Rect(dd_rect.x, dd_rect.y, size.w, size.h) } :
           \E set_rect \in { IF do_measure /\ ~active
                               THEN Some(Rect(dd_rect.x, dd_rect.y, 0, 0))
                               ELSE IF do_measure \/ show
                               THEN Some(BoundsAfterLayout(rect, layout(rect, dd_window)))
                               ELSE None } :
           /\ dd_shared' = [dd_shared EXCEPT !.open_requested = FALSE,
                                             !.style_changed = FALSE,
                                             !.new_entries = None]
           /\ dd_active' = active
           /\ dd_entries' = IF do_measure THEN m.entries ELSE entries2
           /\ dd_size' = size
           /\ ViewAfterHandler(set_rect, opening, FALSE, dd_position_changed, dd_focus_lost)
           /\ dd_fx' = [DdFx("CustomStateChanged") EXCEPT
                           !.set_rect = set_rect,
                           !.repaint = do_measure /\ active,
                           !.steal_focus = opening,
                           !.listen_off = opening,
                           !.layouts = IF (do_measure /\ active) \/ show THEN 1 ELSE 0,
                           !.measures = IF do_measure THEN 1 ELSE 0,
                           !.restyled = do_restyle,
                           !.drained = dd_written,
                           !.read_order = DrainOrder,
                           !.style_changed = dd_shared.style_changed]
    /\ dd_notifications' = dd_notifications - 1
    /\ dd_written' = NoWrites
    /\ UNCHANGED <<dd_hovered_entry_index, dd_action, dd_window, dd_panicked>>
    /\ UNCHANGED <<lay_vars, tb_vars, ms_vars>>

\* on_event, ElementEvent::ClickedOff
DdClickedOff ==
    /\ ~dd_panicked
    /\ dd_focused
    /\ ViewAfterHandler(None, FALSE, TRUE, dd_position_changed, dd_focus_lost)
    /\ dd_fx' = [DdFx("ClickedOff") EXCEPT !.release_focus = TRUE]
    /\ UNCHANGED <<dd_shared, dd_entries, dd_size, dd_active, dd_hovered_entry_index,
                   dd_action, dd_window, dd_notifications, dd_panicked, dd_written>>
    /\ UNCHANGED <<lay_vars, tb_vars, ms_vars>>

\* A loss of the focus that hides the menu and leaves its bounds as they are.
DdExclusiveFocusLost_keeps_bounds ==
    /\ ~dd_panicked
    /\ dd_focus_lost \/ dd_focused
    /\ dd_active' = FALSE
    /\ dd_hovered_entry_index' = None
    /\ LET set_rect == Some(dd_rect)
       IN  /\ dd_rect' = set_rect[1]
           /\ dd_focused' = FALSE
           /\ dd_focus_lost' = FALSE
           /\ dd_fx' = [DdFx("ExclusiveFocus(false)") EXCEPT
                           !.release_focus = TRUE, !.set_rect = set_rect]
    /\ UNCHANGED <<dd_shared, dd_entries, dd_size, dd_action, dd_window,
                   dd_notifications, dd_position_changed, dd_panicked, dd_written>>
    /\ UNCHANGED <<lay_vars, tb_vars, ms_vars>>

\* A loss of the focus that clears the hover and the bounds and leaves the
\* menu active.
DdExclusiveFocusLost_stays_active ==
    /\ ~dd_panicked
    /\ dd_focus_lost \/ dd_focused
    /\ dd_active' = dd_active
    /\ dd_hovered_entry_index' = None
    /\ LET set_rect == Some(Rect(dd_rect.x, dd_rect.y, 0, 0))
       IN  /\ dd_rect' = set_rect[1]
           /\ dd_focused' = FALSE
           /\ dd_focus_lost' = FALSE
           /\ dd_fx' = [DdFx("ExclusiveFocus(false)") EXCEPT
                           !.release_focus = TRUE, !.set_rect = set_rect]
    /\ UNCHANGED <<dd_shared, dd_entries, dd_size, dd_action, dd_window,
                   dd_notifications, dd_position_changed, dd_panicked, dd_written>>
    /\ UNCHANGED <<lay_vars, tb_vars, ms_vars>>

\* on_event, ElementEvent::ExclusiveFocus(false): the event owed after a
\* release of the focus, or the view giving the focus to another element.
DdExclusiveFocusLost ==
    /\ ~dd_panicked
    /\ dd_focus_lost \/ dd_focused
    /\ dd_active' = FALSE
    /\ dd_hovered_entry_index' = None
    /\ LET set_rect == Some(Rect(dd_rect.x, dd_rect.y, 0, 0))
       IN  /\ dd_rect' = set_rect[1]
           /\ dd_focused' = FALSE
           /\ dd_focus_lost' = FALSE
           /\ dd_fx' = [DdFx("ExclusiveFocus(false)") EXCEPT
                           !.release_focus = TRUE, !.set_rect = set_rect]
    /\ UNCHANGED <<dd_shared, dd_entries, dd_size, dd_action, dd_window,
                   dd_notifications, dd_position_changed, dd_panicked, dd_written>>
    /\ UNCHANGED <<lay_vars, tb_vars, ms_vars>>

\* on_event, PointerEvent::Moved { position, .. }
DdPointerMoved(position) ==
    /\ ~dd_panicked
    /\ IF ~dd_active
       THEN /\ dd_fx' = DdFx("Moved")
            /\ UNCHANGED dd_hovered_entry_index
       ELSE LET pointer_y == position.y - dd_rect.y
                new_hovered_entry_index ==
                    IF contains(dd_rect, position)
                    THEN hit_test(dd_entries, pointer_y)
                    ELSE None
            IN  /\ dd_hovered_entry_index' = new_hovered_entry_index
                /\ dd_fx' = [DdFx("Moved") EXCEPT
                                !.repaint = (dd_hovered_entry_index /= new_hovered_entry_index),
                                !.captured = TRUE]
    /\ UNCHANGED <<dd_shared, dd_entries, dd_size, dd_active, dd_action, dd_rect,
                   dd_window, dd_notifications, dd_position_changed, dd_focused,
                   dd_focus_lost, dd_panicked, dd_written>>
    /\ UNCHANGED <<lay_vars, tb_vars, ms_vars>>

\* on_event, PointerEvent::PointerLeft (the arm of the other pointer events
\* does the same).
DdPointerLeft ==
    /\ ~dd_panicked
    /\ dd_fx' = [DdFx("PointerLeft") EXCEPT !.captured = dd_active]
    /\ UNCHANGED <<dd_shared, dd_entries, dd_size, dd_active, dd_hovered_entry_index,
                   dd_action, dd_rect, dd_window, dd_notifications,
                   dd_position_changed, dd_focused, dd_focus_lost, dd_panicked,
                   dd_written>>
    /\ UNCHANGED <<lay_vars, tb_vars, ms_vars>>

\* A press handler that selects with any button.
DdButtonJustPressed_any_button(button, position) ==
    /\ ~dd_panicked
    /\ IF ~dd_active
       THEN /\ dd_fx' = DdFx("ButtonJustPressed")
            /\ UNCHANGED <<dd_rect, dd_position_changed, dd_focused, dd_focus_lost,
                           dd_panicked>>
       ELSE LET pointer_y == position.y - dd_rect.y
                selected ==
                    IF contains(dd_rect, position)
                    THEN hit_test(dd_entries, pointer_y)
                    ELSE None
                invoked == selected /= None /\ dd_action
            IN  \E accepted \in IF invoked THEN BOOLEAN ELSE {TRUE} :
                LET panic == invoked /\ ~accepted
                    released == selected /= None /\ ~panic
                IN  /\ dd_panicked' = panic
                    /\ ViewAfterHandler(None, FALSE, released, dd_position_changed,
                                        dd_focus_lost)
                    /\ dd_fx' = [DdFx("ButtonJustPressed") EXCEPT
                                    !.action = IF invoked
                                               THEN Some(dd_entries[selected[1]].unique_id)
                                               ELSE None,
                                    !.release_focus = released,
                                    !.captured = ~panic,
                                    !.rejected = (invoked /\ ~accepted)]
    /\ UNCHANGED <<dd_shared, dd_entries, dd_size, dd_active, dd_hovered_entry_index,
                   dd_action, dd_window, dd_notifications, dd_written>>
    /\ UNCHANGED <<lay_vars, tb_vars, ms_vars>>

\* A press handler that drops the result of send_action.
DdButtonJustPressed_ignores_rejection(button, position) ==
    /\ ~dd_panicked
    /\ IF ~dd_active
       THEN /\ dd_fx' = DdFx("ButtonJustPressed")
            /\ UNCHANGED <<dd_rect, dd_position_changed, dd_focused, dd_focus_lost,
                           dd_panicked>>
       ELSE LET pointer_y == position.y - dd_rect.y
                selected ==
                    IF button = "Primary" /\ contains(dd_rect, position)
                    THEN hit_test(dd_entries, pointer_y)
                    ELSE None
                invoked == selected /= None /\ dd_action
            IN  \E accepted \in IF invoked THEN BOOLEAN ELSE {TRUE} :
                LET panic == FALSE
                    released == selected /= None /\ ~panic
                IN  /\ dd_panicked' = panic
                    /\ ViewAfterHandler(None, FALSE, released, dd_position_changed,
                                        dd_focus_lost)
                    /\ dd_fx' = [DdFx("ButtonJustPressed") EXCEPT
                                    !.action = IF invoked
                                               THEN Some(dd_entries[selected[1]].unique_id)
                                               ELSE None,
                                    !.release_focus = released,
                                    !.captured = ~panic,
                                    !.rejected = (invoked /\ ~accepted)]
    /\ UNCHANGED <<dd_shared, dd_entries, dd_size, dd_active, dd_hovered_entry_index,
                   dd_action, dd_window, dd_notifications, dd_written>>
    /\ UNCHANGED <<lay_vars, tb_vars, ms_vars>>

\* on_event, PointerEvent::ButtonJustPressed { button, position, .. }; accepted
\* tells whether the output channel takes the action (send_action(..) is Ok).
DdButtonJustPressed(button, position) ==
    /\ ~dd_panicked
    /\ IF ~dd_active
       THEN /\ dd_fx' = DdFx("ButtonJustPressed")
            /\ UNCHANGED <<dd_rect, dd_position_changed, dd_focused, dd_focus_lost,
                           dd_panicked>>
       ELSE LET pointer_y == position.y - dd_rect.y
                selected ==
                    IF button = "Primary" /\ contains(dd_rect, position)
                    THEN hit_test(dd_entries, pointer_y)
                    ELSE None
                invoked == selected /= None /\ dd_action
            IN  \E accepted \in IF invoked THEN BOOLEAN ELSE {TRUE} :
                LET panic == invoked /\ ~accepted
                    released == selected /= None /\ ~panic
                IN  /\ dd_panicked' = panic
                    /\ ViewAfterHandler(None, FALSE, released, dd_position_changed,
                                        dd_focus_lost)
                    /\ dd_fx' = [DdFx("ButtonJustPressed") EXCEPT
                                    !.action = IF invoked
                                               THEN Some(dd_entries[selected[1]].unique_id)
                                               ELSE None,
                                    !.release_focus = released,
                                    !.captured = ~panic,
                                    !.rejected = (invoked /\ ~accepted)]
    /\ UNCHANGED <<dd_shared, dd_entries, dd_size, dd_active, dd_hovered_entry_index,
                   dd_action, dd_window, dd_notifications, dd_written>>
    /\ UNCHANGED <<lay_vars, tb_vars, ms_vars>>

\* A PositionChanged handler that leaves the bounds as they are.
DdPositionChanged_no_layout ==
    /\ ~dd_panicked
    /\ dd_position_changed
    /\ dd_fx' = DdFx("PositionChanged")
    /\ dd_position_changed' = FALSE
    /\ UNCHANGED <<dd_rect, dd_focused, dd_focus_lost>>
    /\ UNCHANGED <<dd_shared, dd_entries, dd_size, dd_active, dd_hovered_entry_index,
                   dd_action, dd_window, dd_notifications, dd_panicked, dd_written>>
    /\ UNCHANGED <<lay_vars, tb_vars, ms_vars>>

\* A PositionChanged that sends the view the bounds after layout, corrected
\* or not.
DdPositionChanged_always_sets_rect ==
    /\ ~dd_panicked
    /\ dd_position_changed
    /\ IF ~dd_active
       THEN /\ dd_fx' = DdFx("PositionChanged")
            /\ dd_position_changed' = FALSE
            /\ UNCHANGED <<dd_rect, dd_focused, dd_focus_lost>>
       ELSE LET layout_info == layout(dd_rect, dd_window)
            IN  /\ ViewAfterHandler(Some(BoundsAfterLayout(dd_rect, layout_info)),
                                    FALSE, FALSE, FALSE, dd_focus_lost)
                /\ dd_fx' = [DdFx("PositionChanged") EXCEPT
                                !.set_rect = Some(BoundsAfterLayout(dd_rect, layout_info)),
                                !.layouts = 1]
    /\ UNCHANGED <<dd_shared, dd_entries, dd_size, dd_active, dd_hovered_entry_index,
                   dd_action, dd_window, dd_notifications, dd_panicked, dd_written>>
    /\ UNCHANGED <<lay_vars, tb_vars, ms_vars>>

\* on_event, ElementEvent::PositionChanged
DdPositionChanged ==
    /\ ~dd_panicked
    /\ dd_position_changed
    /\ IF ~dd_active
       THEN /\ dd_fx' = DdFx("PositionChanged")
            /\ dd_position_changed' = FALSE
            /\ UNCHANGED <<dd_rect, dd_focused, dd_focus_lost>>
       ELSE LET layout_info == layout(dd_rect, dd_window)
            IN  /\ ViewAfterHandler(layout_info.new_bounds, FALSE, FALSE, FALSE,
                                    dd_focus_lost)
                /\ dd_fx' = [DdFx("PositionChanged") EXCEPT
                                !.set_rect = layout_info.new_bounds,
                                !.layouts = 1]
    /\ UNCHANGED <<dd_shared, dd_entries, dd_size, dd_active, dd_hovered_entry_index,
                   dd_action, dd_window, dd_notifications, dd_panicked, dd_written>>
    /\ UNCHANGED <<lay_vars, tb_vars, ms_vars>>

\* ElementHandle::set_pos, as the view carries it out.
ViewSetPos(pos) ==
    /\ dd_rect' = [dd_rect EXCEPT !.x = pos.x, !.y = pos.y]
    /\ dd_position_changed' = (dd_position_changed \/ Origin(dd_rect) /= pos)

\* A set_style without the Rc::ptr_eq test: it writes and notifies always.
DdSetStyle_without_ptr_eq(style) ==
    /\ ~dd_panicked
    /\ dd_notifications < MaxPending
    /\ dd_shared' = [dd_shared EXCEPT !.style = style, !.style_changed = TRUE]
    /\ dd_notifications' = dd_notifications + 1
    /\ dd_fx' = [DdFx("set_style") EXCEPT !.notified = TRUE,
                                          !.notified_in_borrow = TRUE]
    /\ UNCHANGED <<dd_entries, dd_size, dd_active, dd_hovered_entry_index, dd_action,
                   dd_rect, dd_window, dd_position_changed, dd_focused,
                   dd_focus_lost, dd_panicked, dd_written>>
    /\ UNCHANGED <<lay_vars, tb_vars, ms_vars>>

\* A set_style that writes the style and notifies, and does not raise
\* style_changed.
DdSetStyle_without_style_changed(style) ==
    /\ ~dd_panicked
    /\ dd_notifications < MaxPending
    /\ dd_shared' = [dd_shared EXCEPT !.style = style]
    /\ dd_notifications' = dd_notifications + 1
    /\ dd_fx' = [DdFx("set_style") EXCEPT !.notified = TRUE,
                                          !.notified_in_borrow = TRUE]
    /\ UNCHANGED <<dd_entries, dd_size, dd_active, dd_hovered_entry_index, dd_action,
                   dd_rect, dd_window, dd_position_changed, dd_focused,
                   dd_focus_lost, dd_panicked, dd_written>>
    /\ UNCHANGED <<lay_vars, tb_vars, ms_vars>>

\* DropDownMenu::set_style
DdSetStyle(style) ==
    /\ ~dd_panicked
    /\ IF dd_shared.style /= style
       THEN /\ dd_notifications < MaxPending
            /\ dd_shared' = [dd_shared EXCEPT !.style = style, !.style_changed = TRUE]
            /\ dd_notifications' = dd_notifications + 1
            /\ dd_fx' = [DdFx("set_style") EXCEPT !.notified = TRUE,
                                                  !.notified_in_borrow = TRUE]
       ELSE /\ dd_fx' = DdFx("set_style")
            /\ UNCHANGED <<dd_shared, dd_notifications>>
    /\ UNCHANGED <<dd_entries, dd_size, dd_active, dd_hovered_entry_index, dd_action,
                   dd_rect, dd_window, dd_position_changed, dd_focused,
                   dd_focus_lost, dd_panicked, dd_written>>
    /\ UNCHANGED <<lay_vars, tb_vars, ms_vars>>

\* DropDownMenu::set_position
DdSetPosition(pos) ==
    /\ ~dd_panicked
    /\ ViewSetPos(pos)
    /\ dd_fx' = DdFx("set_position")
    /\ UNCHANGED <<dd_shared, dd_entries, dd_size, dd_active, dd_hovered_entry_index,
                   dd_action, dd_window, dd_notifications, dd_focused,
                   dd_focus_lost, dd_panicked, dd_written>>
    /\ UNCHANGED <<lay_vars, tb_vars, ms_vars>>

\* A set_entries that keeps a replacement that is still pending.
set_entries_keeps_pending(shared, entries) ==
    IF shared.new_entries = None
    THEN [shared EXCEPT !.new_entries = Some(entries)]
    ELSE shared

\* DropDownMenu::set_entries: the write to the shared state.
set_entries(shared, entries) ==
    [shared EXCEPT !.new_entries = Some(entries)]

\* DropDownMenu::set_entries
DdSetEntries(entries) ==
    /\ ~dd_panicked
    /\ dd_notifications < MaxPending
    /\ dd_shared' = set_entries(dd_shared, entries)
    /\ dd_notifications' = dd_notifications + 1
    /\ dd_written' = [last |-> Some(entries),
                      differ |-> \/ dd_written.differ
                                 \/ (dd_written.last /= None /\ dd_written.last /= Some(entries))]
    /\ dd_fx' = [DdFx("set_entries") EXCEPT !.notified = TRUE]
    /\ UNCHANGED <<dd_entries, dd_size, dd_active, dd_hovered_entry_index, dd_action,
                   dd_rect, dd_window, dd_position_changed, dd_focused,
                   dd_focus_lost, dd_panicked>>
    /\ UNCHANGED <<lay_vars, tb_vars, ms_vars>>

\* An open that sets the flag and does not notify the element.
DdOpen_without_notify(position) ==
    /\ ~dd_panicked
    /\ dd_notifications < MaxPending
    /\ IF position /= None
       THEN ViewSetPos(position[1])
       ELSE UNCHANGED <<dd_rect, dd_position_changed>>
    /\ dd_shared' = [dd_shared EXCEPT !.open_requested = TRUE]
    /\ dd_notifications' = dd_notifications
    /\ dd_fx' = DdFx("open")
    /\ UNCHANGED <<dd_entries, dd_size, dd_active, dd_hovered_entry_index, dd_action,
                   dd_window, dd_focused, dd_focus_lost, dd_panicked, dd_written>>
    /\ UNCHANGED <<lay_vars, tb_vars, ms_vars>>

\* DropDownMenu::open; position is an Option<Point>.
DdOpen(position) ==
    /\ ~dd_panicked
    /\ dd_notifications < MaxPending
    /\ IF position /= None
       THEN ViewSetPos(position[1])
       ELSE UNCHANGED <<dd_rect, dd_position_changed>>
    /\ dd_shared' = [dd_shared EXCEPT !.open_requested = TRUE]
    /\ dd_notifications' = dd_notifications + 1
    /\ dd_fx' = [DdFx("open") EXCEPT !.notified = TRUE]
    /\ UNCHANGED <<dd_entries, dd_size, dd_active, dd_hovered_entry_index, dd_action,
                   dd_window, dd_focused, dd_focus_lost, dd_panicked, dd_written>>
    /\ UNCHANGED <<lay_vars, tb_vars, ms_vars>>

(***************************************************************************)
(*                 measure and the scan, as functions                      *)
(***************************************************************************)
\* The styles measure is called on: every combination of small metrics, with
\* a text of one pixel or of one pixel and one SubPixel-th, and the style of
\* the specification's scenario.
MeasureStyles ==
    { [left_line_height |-> l, left_padding_top |-> 0, left_padding_bottom |-> 0,
       right_line_height |-> r, right_padding_top |-> 0, right_padding_bottom |-> 0,
       outer_padding |-> o, divider_width |-> w, divider_padding |-> p,
       text_width |-> 1, text_width_part |-> f] :
         l \in 0..MaxLine, r \in 0..MaxLine, o \in 0..MaxPad, w \in 0..MaxPad,
         p \in 0..MaxPad, f \in {0, 1} }
    \cup { DropDownMenuStyle[3] }

\* Every list of up to MaxEntries entries.
MeasureEntryLists ==
    UNION { [1..n -> {MenuOption(0), MenuOption(1), MenuDivider}] : n \in 0..MaxEntries }

\* The pointer offsets of the scan: the small ones, and those of the scenario.
ScanOffsets == 0..MaxOffset \cup {10, 27, 40}

\* The entries as create builds them, before the first measure.
MeasureInit ==
    /\ ms_style \in MeasureStyles
    /\ ms_given \in MeasureEntryLists
    /\ ms_entries = build_entries(ms_given, 0)
    /\ ms_size = Size(0, 0)
    /\ ms_pointer_y = 0
    /\ ms_hit = None
    /\ ms_pc = "input"

\* The measurement variables of the other specifications.
MeasureIdle ==
    /\ ms_style = DropDownMenuStyle[1]
    /\ ms_given = << >>
    /\ ms_entries = << >>
    /\ ms_size = Size(0, 0)
    /\ ms_pointer_y = 0
    /\ ms_hit = None
    /\ ms_pc = "idle"

\* self.size = style.measure(&mut self.entries)
MsMeasure ==
    /\ ms_pc = "input"
    /\ LET m == measure(ms_style, ms_entries)
       IN  /\ ms_entries' = m.entries
           /\ ms_size' = m.size
    /\ ms_pc' = "measured"
    /\ UNCHANGED <<ms_style, ms_given, ms_pointer_y, ms_hit>>
    /\ UNCHANGED <<lay_vars, tb_vars, dd_vars>>

\* The scan of the measured entries for the pointer offset pointer_y.
MsScan(pointer_y) ==
    /\ ms_pc = "measured"
    /\ ms_pointer_y' = pointer_y
    /\ ms_hit' = hit_test(ms_entries, pointer_y)
    /\ ms_pc' = "hit"
    /\ UNCHANGED <<ms_style, ms_given, ms_entries, ms_size>>
    /\ UNCHANGED <<lay_vars, tb_vars, dd_vars>>

vars == <<lay_vars, tb_vars, dd_vars, ms_vars>>

InitLayout == LayoutInit /\ ToggleIdle /\ MenuIdle /\ MeasureIdle

NextLayout == LayoutFirst \/ LayoutSecond

SpecLayout == InitLayout /\ [][NextLayout]_vars

InitToggle == ToggleInit /\ LayoutIdle /\ MenuIdle /\ MeasureIdle

NextToggle ==
    \/ TbCustomStateChanged
    \/ \E just_entered \in BOOLEAN : TbPointerMoved(just_entered)
    \/ TbPointerLeft
    \/ \E button \in PointerButton, accepted \in BOOLEAN :
           TbButtonJustPressed(button, accepted)
    \/ \E button \in PointerButton, within \in BOOLEAN :
           TbButtonJustReleased(button, within)
    \/ TbHoverTimeout
    \/ TbOtherEvent
    \/ \E style \in ToggleStyles : TbSetStyle(style)
    \/ \E toggled \in BOOLEAN : TbSetToggled(toggled)
    \/ \E disabled \in BOOLEAN : TbSetDisabled(disabled)
    \/ \E text \in ToggleTexts : TbSetText(text)
    \/ \E offset \in ToggleTextOffsets : TbSetTextOffset(offset)

SpecToggle == InitToggle /\ [][NextToggle]_vars

InitMenu == MenuInit /\ LayoutIdle /\ ToggleIdle /\ MeasureIdle

NextMenu ==
    \/ DdCustomStateChanged
    \/ DdClickedOff
    \/ DdExclusiveFocusLost
    \/ \E position \in PointerPositions : DdPointerMoved(position)
    \/ DdPointerLeft
    \/ \E button \in PointerButton, position \in PointerPositions :
           DdButtonJustPressed(button, position)
    \/ DdPositionChanged
    \/ \E style \in MenuStyles : DdSetStyle(style)
    \/ \E pos \in MenuPositions : DdSetPosition(pos)
    \/ \E entries \in MenuEntryLists : DdSetEntries(entries)
    \/ \E position \in {None} \cup { Some(pos) : pos \in MenuPositions } : DdOpen(position)

SpecMenu == InitMenu /\ [][NextMenu]_vars

\* The menu as its handle drives it: restyled, given entries and opened,
\* drained, moved into the window, and closed by a click beside it or by the
\* loss of the focus.
NextMenuOpen ==
    \/ DdCustomStateChanged
    \/ DdClickedOff
    \/ DdExclusiveFocusLost
    \/ DdPositionChanged
    \/ \E style \in MenuStyles : DdSetStyle(style)
    \/ \E entries \in MenuEntryLists : DdSetEntries(entries)
    \/ \E position \in {None} \cup { Some(pos) : pos \in MenuPositions } : DdOpen(position)

\* The event loop delivers every CustomStateChanged notification that is
\* queued: a delivery is not put off forever.
SpecMenuFair == InitMenu /\ [][NextMenuOpen]_vars /\ WF_vars(DdCustomStateChanged)

\* The menu under the pointer: it is opened, moved into the window, pointed
\* at, pressed and closed, with the entries and the style it was created with.
NextMenuPointer ==
    \/ DdCustomStateChanged
    \/ DdClickedOff
    \/ DdExclusiveFocusLost
    \/ \E position \in PointerPositions : DdPointerMoved(position)
    \/ DdPointerLeft
    \/ \E button \in PointerButton, position \in PointerPositions :
           DdButtonJustPressed(button, position)
    \/ DdPositionChanged
    \/ \E position \in {None} \cup { Some(pos) : pos \in MenuPositions } : DdOpen(position)

SpecMenuPointer == InitMenu /\ [][NextMenuPointer]_vars

\* The view delivers the ExclusiveFocus(false) event it owes an element that
\* released the focus: the delivery of an owed event is not put off forever.
\* A menu that holds the focus and has not released it may keep it forever.
SpecMenuFocusFair ==
    InitMenu /\ [][NextMenu]_vars /\ WF_vars(dd_focus_lost /\ DdExclusiveFocusLost)

\* The menu of an application whose style may have no outer padding and
\* whose entries may be a Divider alone: every call on the handle and every
\* event, as in SpecMenu.
InitMenuUnpadded ==
    MenuInitWith(UnpaddedMenuStyles, UnpaddedMenuEntryLists)
        /\ LayoutIdle /\ ToggleIdle /\ MeasureIdle

NextMenuUnpadded ==
    \/ DdCustomStateChanged
    \/ DdClickedOff
    \/ DdExclusiveFocusLost
    \/ \E position \in PointerPositions : DdPointerMoved(position)
    \/ DdPointerLeft
    \/ \E button \in PointerButton, position \in PointerPositions :
           DdButtonJustPressed(button, position)
    \/ DdPositionChanged
    \/ \E style \in UnpaddedMenuStyles : DdSetStyle(style)
    \/ \E pos \in MenuPositions : DdSetPosition(pos)
    \/ \E entries \in UnpaddedMenuEntryLists : DdSetEntries(entries)
    \/ \E position \in {None} \cup { Some(pos) : pos \in MenuPositions } : DdOpen(position)

SpecMenuUnpadded == InitMenuUnpadded /\ [][NextMenuUnpadded]_vars

\* A window with one element that sends actions, a toggle button or a
\* drop-down menu: the element that was created handles its events.
InitSend == InitToggle \/ InitMenu

NextSend ==
    \/ (tb_fx.op /= "idle" /\ NextToggle)
    \/ (dd_fx.op /= "idle" /\ NextMenuPointer)

SpecSend == InitSend /\ [][NextSend]_vars

InitMeasure == MeasureInit /\ LayoutIdle /\ ToggleIdle /\ MenuIdle

NextMeasure ==
    \/ MsMeasure
    \/ \E pointer_y \in ScanOffsets : MsScan(pointer_y)

SpecMeasure == InitMeasure /\ [][NextMeasure]_vars

(***************************************************************************)
(* Properties of layout (specification SpecLayout).                        *)
(***************************************************************************)
InsideWindow(r, v) ==
    /\ 0 <= r.x
    /\ r.x + r.w <= v.w
    /\ 0 <= r.y
    /\ r.y + r.h <= v.h

Min(a, b) == IF a < b THEN a ELSE b

\* C4: the rectangle the caller of layout ends up with (the corrected
\* rectangle when one is returned, the desired rectangle otherwise) lies
\* fully inside the viewport.
C4_LayoutResultInsideWindow ==
    lay_pc /= "input" =>
        InsideWindow(BoundsAfterLayout(lay_bounds, lay_info), lay_window)

\* C4 witness: a rectangle that sticks out of the viewport on the right and
\* is too high for it has been laid out.
C4_Witness ==
    /\ lay_pc = "once"
    /\ lay_bounds.x > 0
    /\ lay_bounds.x + lay_bounds.w > lay_window.w
    /\ lay_bounds.h > lay_window.h
    /\ lay_window.w > 0
    /\ lay_info.new_bounds /= None

\* C5 (as claimed): layout applied to a rectangle that already lies fully
\* inside the viewport returns "no correction" (new_bounds is None).
C5_InsideGivesNoCorrection ==
    (lay_pc /= "input" /\ InsideWindow(lay_bounds, lay_window)) =>
        lay_info.new_bounds = None

\* C6 (as claimed): when layout returned a corrected rectangle, the second
\* call on that rectangle returns "no correction".
C6_SecondCallNoCorrection ==
    lay_pc = "twice" => lay_info2.new_bounds = None

\* C7: layout positions the rectangle at x = 0 when the desired left edge is
\* <= 0, at viewport.width - clamped_width when left + clamped_width exceeds
\* the viewport width, and at the desired left edge otherwise; the same rule
\* gives y.  The two scenarios of the specification give {0,50,200,100} with
\* width_clipped = false, and {600,50,200,100}.
C7_PositionRule ==
    lay_pc /= "input" =>
        LET r  == BoundsAfterLayout(lay_bounds, lay_info)
            cw == Min(lay_bounds.w, lay_window.w)
            ch == Min(lay_bounds.h, lay_window.h)
        IN  /\ r.x = IF lay_bounds.x <= 0 THEN 0
                     ELSE IF lay_bounds.x + cw > lay_window.w
                          THEN lay_window.w - cw
                          ELSE lay_bounds.x
            /\ r.y = IF lay_bounds.y <= 0 THEN 0
                     ELSE IF lay_bounds.y + ch > lay_window.h
                          THEN lay_window.h - ch
                          ELSE lay_bounds.y
            /\ (lay_bounds = ScenarioLeft /\ lay_window = ScenarioWindow) =>
                   /\ lay_info.new_bounds = Some(Rect(0, 50, 200, 100))
                   /\ lay_info.width_clipped = FALSE
            /\ (lay_bounds = ScenarioRight /\ lay_window = ScenarioWindow) =>
                   lay_info.new_bounds = Some(Rect(600, 50, 200, 100))

\* C7 witness: the scenario whose right edge sticks out has been laid out.
C7_Witness ==
    /\ lay_pc = "once"
    /\ lay_bounds = ScenarioRight
    /\ lay_window = ScenarioWindow
    /\ lay_info.new_bounds /= None

\* C8: layout clamps the size to (min(desired.width, viewport.width),
\* min(desired.height, viewport.height)); width_clipped is true exactly when
\* desired.width > viewport.width, height_clipped exactly when
\* desired.height > viewport.height.
C8_SizeClamp ==
    lay_pc /= "input" =>
        LET r == BoundsAfterLayout(lay_bounds, lay_info)
        IN  /\ r.w = Min(lay_bounds.w, lay_window.w)
            /\ r.h = Min(lay_bounds.h, lay_window.h)
            /\ lay_info.width_clipped  <=> (lay_bounds.w > lay_window.w)
            /\ lay_info.height_clipped <=> (lay_bounds.h > lay_window.h)

\* C8 witness: a rectangle wider than the viewport, but not higher, has been
\* laid out.
C8_Witness ==
    /\ lay_pc = "once"
    /\ lay_bounds.w > lay_window.w
    /\ lay_bounds.h <= lay_window.h
    /\ lay_bounds.h > 0


(***************************************************************************)
(* Properties of the toggle button (specification SpecToggle).             *)
(***************************************************************************)

\* C2: every accepted primary-button press sets the state to Down, flips
\* toggled exactly once and invokes the action callback (when one is
\* attached) exactly once with the new toggled value, within that one event;
\* a release never flips toggled and never invokes the callback; the number
\* of invocations equals the number of pointer-driven flips.
C2_TogglePressFiresOnce ==
    /\ [][ ( /\ tb_fx'.op = "ButtonJustPressed"
             /\ tb_fx'.button = "Primary"
             /\ tb_inner.state \in {"Idle", "Hovered"} )
           => /\ tb_inner'.state = "Down"
              /\ tb_inner'.toggled = ~tb_inner.toggled
              /\ tb_action => /\ tb_fx'.action = Some(tb_inner'.toggled)
                              /\ tb_actions' = tb_actions + 1 ]_vars
    /\ [][ tb_fx'.op = "ButtonJustReleased"
           => /\ tb_inner'.toggled = tb_inner.toggled
              /\ tb_fx'.action = None
              /\ tb_actions' = tb_actions ]_vars
    /\ [][ tb_fx'.op \in TbPointerOps \cup {"HoverTimeout", "Other", "CustomStateChanged"}
           => /\ (tb_inner'.toggled /= tb_inner.toggled) <=> (tb_flips' = tb_flips + 1)
              /\ (tb_fx'.action /= None) <=> (tb_actions' = tb_actions + 1)
              /\ tb_flips' \in {tb_flips, tb_flips + 1}
              /\ tb_actions' \in {tb_actions, tb_actions + 1} ]_vars
    /\ [](tb_action => tb_actions = tb_flips)

\* C2 witness: a press was accepted on a button that was toggled off, and the
\* callback got the new value.
C2_Witness ==
    /\ tb_fx.op = "ButtonJustPressed"
    /\ tb_fx.action = Some(TRUE)
    /\ tb_inner.state = "Down"
    /\ tb_inner.toggled
    /\ tb_actions = 2

\* C9: while the state is Disabled no pointer event (move, leave, press,
\* release) changes the state or toggled, invokes the action callback,
\* requests a repaint or starts a hover timeout, and the state leaves
\* Disabled only through set_disabled(false).
C9_DisabledSuppressesPointer ==
    [][ tb_inner.state = "Disabled"
        => /\ tb_fx'.op \in TbPointerOps
                  => /\ tb_inner' = tb_inner
                     /\ tb_fx'.action = None
                     /\ tb_actions' = tb_actions
                     /\ ~tb_fx'.repaint
                     /\ ~tb_fx'.hover_timeout
                     /\ tb_hover_timer' = tb_hover_timer
           /\ tb_inner'.state /= "Disabled"
                  => /\ tb_fx'.op = "set_disabled"
                     /\ tb_inner'.state = "Idle" ]_vars

\* C9 witness: a disabled button with a tooltip message has handled a pointer
\* move that entered it.
C9_Witness ==
    /\ tb_inner.state = "Disabled"
    /\ tb_tooltip_message
    /\ tb_fx.op = "Moved"

\* C10 (as claimed): for every pointer-driven transition from
\* (state, toggled) to (state', toggled') a repaint is requested if and only
\* if the part resolved for (state, toggled) differs from the part resolved
\* for (state', toggled').
C10_RepaintIffPartDiffers ==
    [][ tb_fx'.op \in TbPointerOps
        => ( tb_fx'.repaint <=>
               label_style(ToggleButtonStyle[tb_style], tb_inner.state, tb_inner.toggled)
                 /= label_style(ToggleButtonStyle[tb_style], tb_inner'.state, tb_inner'.toggled) )
      ]_vars


\* C18 (as claimed): on a toggle button with a tooltip message, a hover
\* timeout that fires after a PointerLeft was handled since the countdown
\* started shows no tooltip; a timeout shows the tooltip only if the pointer
\* has not left since the countdown started.
C18_NoTooltipAfterLeave ==
    [][ (tb_fx'.op = "HoverTimeout" /\ tb_tooltip_message)
        => (tb_fx'.tooltip => ~tb_pointer_left) ]_vars


\* C20: set_disabled(true) in a state other than Disabled sets the state to
\* Disabled and notifies; set_disabled(false) in state Disabled sets it to
\* Idle and notifies; set_disabled(true) when Disabled and set_disabled(false)
\* when not Disabled change nothing and notify nobody.  None of them changes
\* toggled or invokes the action callback.
C20_SetDisabled ==
    [][ tb_fx'.op = "set_disabled" =>
          \A disabled \in BOOLEAN :
            TbSetDisabled(disabled) =>
              /\ IF disabled /\ tb_inner.state /= "Disabled"
                 THEN /\ tb_inner'.state = "Disabled"
                      /\ tb_fx'.notified
                      /\ tb_notifications' = tb_notifications + 1
                 ELSE IF ~disabled /\ tb_inner.state = "Disabled"
                 THEN /\ tb_inner'.state = "Idle"
                      /\ tb_fx'.notified
                      /\ tb_notifications' = tb_notifications + 1
                 ELSE /\ tb_inner'.state = tb_inner.state
                      /\ ~tb_fx'.notified
                      /\ tb_notifications' = tb_notifications
              /\ tb_inner'.toggled = tb_inner.toggled
              /\ tb_fx'.action = None
              /\ tb_actions' = tb_actions
              /\ tb_flips' = tb_flips ]_vars

\* C20 witness: a toggled button that was disabled has been enabled again:
\* it is Idle, still toggled, and the element was notified.
C20_Witness ==
    /\ tb_fx.op = "set_disabled"
    /\ tb_fx.notified
    /\ tb_inner.state = "Idle"
    /\ tb_inner.toggled
    /\ tb_flips > 0


\* The parts of a style for a button that is toggled on, and for one that
\* is toggled off.
OnParts(style) == {style.idle_on, style.hovered_on, style.disabled_on}
OffParts(style) == {style.idle_off, style.hovered_off, style.disabled_off}

\* C23: for the state and toggled value of the button, whatever they are,
\* label_style selects a part of the style, one of the on-parts when toggled
\* and one of the off-parts when not, and for either toggled value Down
\* selects the part Hovered selects.
C23_StyleTotal ==
    LET style == ToggleButtonStyle[tb_style]
        part  == label_style(style, tb_inner.state, tb_inner.toggled)
    IN  /\ tb_inner.state \in ButtonState
        /\ tb_inner.toggled \in BOOLEAN
        /\ part \in OnParts(style) \cup OffParts(style)
        /\ tb_inner.toggled => part \in OnParts(style)
        /\ ~tb_inner.toggled => part \in OffParts(style)
        /\ tb_inner.state = "Down"
              => part = label_style(style, "Hovered", tb_inner.toggled)
        /\ \A state \in ButtonState, toggled \in BOOLEAN :
              label_style(style, state, toggled)
                  \in IF toggled THEN OnParts(style) ELSE OffParts(style)

\* C23 witness: a pressed, toggled button with the style of six different
\* parts.
C23_Witness ==
    /\ tb_style = 1
    /\ tb_inner.state = "Down"
    /\ tb_inner.toggled
    /\ tb_fx.op = "ButtonJustPressed"


\* C28: a release of the primary button while the toggle button is Down
\* leaves it Hovered when the release point is within the visible bounds and
\* Idle otherwise, and keeps toggled; a release of another button changes
\* nothing of the button and is not captured.
C28_ReleaseFromDown ==
    [][ \A button \in PointerButton, within \in BOOLEAN :
          TbButtonJustReleased(button, within) =>
            /\ (button = "Primary" /\ tb_inner.state = "Down") =>
                  /\ tb_inner'.state = (IF within THEN "Hovered" ELSE "Idle")
                  /\ tb_inner'.toggled = tb_inner.toggled
                  /\ tb_fx'.captured
            /\ button /= "Primary" =>
                  /\ tb_inner' = tb_inner
                  /\ ~tb_fx'.captured
                  /\ ~tb_fx'.repaint
                  /\ tb_fx'.action = None
            /\ UNCHANGED <<tb_style, tb_action, tb_notifications, tb_actions, tb_flips>> ]_vars

\* C28 witness: a captured release of the primary button found the button
\* Down and toggled, with the pointer off the element, and left it Idle and
\* toggled.
C28_Witness ==
    /\ tb_fx.op = "ButtonJustReleased"
    /\ tb_fx.button = "Primary"
    /\ tb_fx.state_was = "Down"
    /\ tb_fx.captured
    /\ tb_inner = [state |-> "Idle", toggled |-> TRUE]

(***************************************************************************)
(* Properties of the drop-down menu (specification SpecMenu).              *)
(***************************************************************************)

\* C1: whenever the menu is shown (active) and no CustomStateChanged or
\* PositionChanged delivery is pending, its bounding rectangle lies fully
\* inside the viewport.
C1_ShownMenuInsideWindow ==
    (dd_active /\ dd_notifications = 0 /\ ~dd_position_changed) =>
        InsideWindow(dd_rect, dd_window)

\* C1 witness: a shown menu, higher than the window, that the handle moved
\* below the window, after the deliveries.
C1_Witness ==
    /\ dd_active
    /\ dd_notifications = 0
    /\ ~dd_position_changed
    /\ dd_fx.op = "PositionChanged"
    /\ dd_fx.set_rect /= None
    /\ dd_size.h > dd_window.h
    /\ dd_rect.x > 0

\* C3: when set_entries was called two or more times before the drain, the
\* drain applies the entries of the last call only: the element's entry list
\* after the drain is the last replacement, in the same order, and nothing
\* stays pending.
C3_LastWriteWins ==
    (dd_fx.op = "CustomStateChanged" /\ dd_fx.drained.last /= None) =>
        /\ MenuEntriesOf(dd_entries) = dd_fx.drained.last[1]
        /\ dd_shared.new_entries = None

\* C3 witness: a drain has applied the second of two different replacements.
C3_Witness ==
    /\ dd_fx.op = "CustomStateChanged"
    /\ dd_fx.drained.differ
    /\ Len(dd_entries) = 3

\* C11: set_style with the style the shared state already holds (the same Rc)
\* leaves the shared state as it is, style and style_changed included, and
\* notifies nobody; with another style it replaces the style, sets
\* style_changed and notifies exactly once.  Nothing else of the shared state
\* changes.
C11_SetStyleFrame ==
    [][ \A style \in MenuStyles :
          DdSetStyle(style) =>
            IF style = dd_shared.style
            THEN /\ dd_shared' = dd_shared
                 /\ ~dd_fx'.notified
                 /\ dd_notifications' = dd_notifications
            ELSE /\ dd_shared'.style = style
                 /\ dd_shared'.style_changed
                 /\ dd_shared'.new_entries = dd_shared.new_entries
                 /\ dd_shared'.open_requested = dd_shared.open_requested
                 /\ dd_fx'.notified
                 /\ dd_notifications' = dd_notifications + 1 ]_vars

\* C11 witness: set_style was called with the style in place while the
\* element still owed a restyle, and it notified nobody.
C11_Witness ==
    /\ dd_fx.op = "set_style"
    /\ ~dd_fx.notified
    /\ dd_shared.style_changed
    /\ dd_notifications = 1

\* What a CustomStateChanged delivery that does nothing leaves alone and
\* does not ask for.
DrainChangesNothing ==
    /\ dd_entries' = dd_entries
    /\ dd_size' = dd_size
    /\ dd_active' = dd_active
    /\ dd_hovered_entry_index' = dd_hovered_entry_index
    /\ dd_rect' = dd_rect
    /\ dd_focused' = dd_focused
    /\ dd_fx'.set_rect = None
    /\ ~dd_fx'.repaint
    /\ ~dd_fx'.steal_focus
    /\ ~dd_fx'.listen_off
    /\ dd_fx'.measures = 0
    /\ dd_fx'.layouts = 0

\* C12: a CustomStateChanged delivery that finds nothing pending (no new
\* entries, style_changed false, open_requested false) leaves the entries,
\* the size, active and the hovered index as they are and asks for no bounds
\* update, repaint or focus; and a delivery that directly follows another
\* delivery, with no write in between, changes nothing.
C12_EmptyDrainIsNoOp ==
    /\ [][ ( /\ dd_fx'.op = "CustomStateChanged"
             /\ dd_notifications' = dd_notifications - 1
             /\ dd_shared.new_entries = None
             /\ ~dd_shared.style_changed
             /\ ~dd_shared.open_requested )
           => DrainChangesNothing ]_vars
    /\ [][ ( /\ dd_fx.op = "CustomStateChanged"
             /\ dd_fx'.op = "CustomStateChanged"
             /\ dd_notifications' = dd_notifications - 1 )
           => DrainChangesNothing ]_vars

\* C12 witness: a hidden menu with entries got a delivery that neither
\* measured nor opened it, the second of two queued for the same writes.
C12_Witness ==
    /\ dd_fx.op = "CustomStateChanged"
    /\ dd_fx.measures = 0
    /\ ~dd_fx.steal_focus
    /\ ~dd_active
    /\ dd_notifications = 0
    /\ Len(dd_entries) = 3

\* The entries of a list that are Options whose interval holds y.
OptionsAt(entries, y) ==
    { i \in 1..Len(entries) : /\ entries[i].kind = "Option"
                              /\ entries[i].start_y <= y
                              /\ y < entries[i].end_y }

\* The first of them in entry order, if there is one.
FirstOptionAt(entries, y) ==
    IF OptionsAt(entries, y) = {}
    THEN None
    ELSE Some(CHOOSE i \in OptionsAt(entries, y) :
                 \A j \in OptionsAt(entries, y) : i <= j)

\* C13: for a pointer position inside the bounds of the shown menu, with y
\* the pointer's y minus the top edge of the menu, a move hovers and a
\* primary press selects the first Option, in entry order, with
\* start_y <= y < end_y, and nothing when no Option holds y; a Divider is
\* never hit.
C13_HitTestRule ==
    /\ [][ (dd_active /\ dd_fx'.op = "Moved") =>
             \A p \in PointerPositions :
               (contains(dd_rect, p) /\ DdPointerMoved(p))
                 => dd_hovered_entry_index' = FirstOptionAt(dd_entries, p.y - dd_rect.y) ]_vars
    /\ [][ (dd_active /\ dd_fx'.op = "ButtonJustPressed") =>
             \A p \in PointerPositions :
               (contains(dd_rect, p) /\ DdButtonJustPressed("Primary", p))
                 => LET hit == FirstOptionAt(dd_entries, p.y - dd_rect.y)
                    IN  dd_fx'.action = IF hit = None THEN None
                                        ELSE Some(dd_entries[hit[1]].unique_id) ]_vars

\* C13 witness: the pointer moved onto an Option that follows a Divider, and
\* the element hovers it.
C13_Witness ==
    /\ dd_fx.op = "Moved"
    /\ dd_active
    /\ dd_hovered_entry_index /= None
    /\ dd_hovered_entry_index[1] > 1
    /\ dd_entries[dd_hovered_entry_index[1] - 1].kind = "Divider"

(***************************************************************************)
(* Properties of measure and the scan (specification SpecMeasure).         *)
(***************************************************************************)
\* The offsets an entry starts and ends at: start_y and end_y of an Option,
\* y of a Divider.
StartOffset(entry) == IF entry.kind = "Option" THEN entry.start_y ELSE entry.y
EndOffset(entry) == IF entry.kind = "Option" THEN entry.end_y ELSE entry.y

\* C14: after measure of a non-empty entry list with a style of non-negative
\* metrics, every Option has start_y <= end_y, no two Option intervals
\* overlap, and the offsets do not decrease in entry order: for entries
\* i < j the end offset of i is at most the start offset of j.
C14_RowsOrdered ==
    (ms_pc \in {"measured", "hit"} /\ ms_entries /= << >>) =>
        /\ \A i \in 1..Len(ms_entries) :
              ms_entries[i].kind = "Option" => ms_entries[i].start_y <= ms_entries[i].end_y
        /\ \A i, j \in 1..Len(ms_entries) :
              (i /= j /\ ms_entries[i].kind = "Option" /\ ms_entries[j].kind = "Option")
                => ~\E y \in 0..(ms_size.h + 1) :
                       /\ ms_entries[i].start_y <= y /\ y < ms_entries[i].end_y
                       /\ ms_entries[j].start_y <= y /\ y < ms_entries[j].end_y
        /\ \A i, j \in 1..Len(ms_entries) :
              i < j => EndOffset(ms_entries[i]) <= StartOffset(ms_entries[j])

\* C14 witness: a measured list of two Options around a Divider whose rows,
\* divider and paddings all take room.
C14_Witness ==
    /\ ms_pc = "measured"
    /\ Len(ms_entries) = 3
    /\ ms_entries[1].kind = "Option"
    /\ ms_entries[2].kind = "Divider"
    /\ ms_entries[3].kind = "Option"
    /\ ms_entries[1].start_y > 0
    /\ ms_entries[1].start_y < ms_entries[1].end_y
    /\ ms_entries[1].end_y < ms_entries[2].y
    /\ ms_entries[2].y < ms_entries[3].start_y

\* The scenario: [Option(id = 0), Divider, Option(id = 1)] measured with row
\* height 20, divider width 1, divider padding 2 and outer padding 4.
ScenarioMeasured ==
    /\ ms_pc \in {"measured", "hit"}
    /\ ms_style = DropDownMenuStyle[3]
    /\ ms_given = << MenuOption(0), MenuDivider, MenuOption(1) >>

\* C15 (as claimed): measuring the scenario yields start/end offsets (4, 24)
\* for entry 0, divider offset 28, and start/end offsets (34, 54) for entry 1.
C15_ScenarioOffsetsAsClaimed ==
    ScenarioMeasured =>
        /\ ms_entries[1].start_y = 4 /\ ms_entries[1].end_y = 24
        /\ ms_entries[2].y = 28
        /\ ms_entries[3].start_y = 34 /\ ms_entries[3].end_y = 54

\* C15 (amended): measuring the scenario yields start/end offsets (4, 24) for
\* entry 0, divider offset 26 (the end of entry 0 plus the divider padding),
\* and start/end offsets (29, 49) for entry 1 (the Divider takes its width
\* plus twice its padding, 5).
C15_ScenarioOffsets ==
    ScenarioMeasured =>
        /\ ms_entries[1].start_y = 4 /\ ms_entries[1].end_y = 24
        /\ ms_entries[2].y = 26
        /\ ms_entries[3].start_y = 29 /\ ms_entries[3].end_y = 49

\* C15 witness: the scenario has been measured, and its second row has the
\* row height 20.
C15_Witness ==
    /\ ScenarioMeasured
    /\ ms_pc = "measured"
    /\ ms_entries[3].end_y - ms_entries[3].start_y = 20

\* The unique_id of the Option a scan of the measured entries found.
SelectedId == IF ms_hit = None THEN None ELSE Some(ms_entries[ms_hit[1]].unique_id)

\* C16: in the measured scenario a scan at offset 10 selects id 0, at offset
\* 40 id 1, and at offset 27 nothing.
C16_ScenarioHits ==
    (ScenarioMeasured /\ ms_pc = "hit") =>
        /\ ms_pointer_y = 10 => SelectedId = Some(0)
        /\ ms_pointer_y = 40 => SelectedId = Some(1)
        /\ ms_pointer_y = 27 => SelectedId = None

\* C16 witness: the scan of the measured scenario at offset 40 found the
\* third entry.
C16_Witness ==
    /\ ScenarioMeasured
    /\ ms_pc = "hit"
    /\ ms_pointer_y = 40
    /\ ms_hit = Some(3)

\* C17: while the menu is shown, a primary press inside its bounds on the row
\* of an Option invokes the callback once, with the unique_id of that row, and
\* with the action sent (the channel took it) releases the focus; a press on
\* a Divider or on padding, outside the bounds or with another button invokes
\* no callback, sends nothing and does not release the focus.
C17_PressSelectsRow ==
    [][ (dd_active /\ dd_fx'.op = "ButtonJustPressed") =>
          \A button \in PointerButton, p \in PointerPositions :
            DdButtonJustPressed(button, p) =>
              LET hit == IF contains(dd_rect, p)
                         THEN FirstOptionAt(dd_entries, p.y - dd_rect.y)
                         ELSE None
              IN  IF button = "Primary" /\ hit /= None
                  THEN /\ dd_fx'.action = Some(dd_entries[hit[1]].unique_id)
                       /\ ~dd_panicked' => /\ dd_fx'.release_focus
                                           /\ ~dd_focused'
                  ELSE /\ dd_fx'.action = None
                       /\ ~dd_fx'.release_focus
                       /\ dd_focused' = dd_focused
                       /\ dd_focus_lost' = dd_focus_lost
                       /\ ~dd_panicked' ]_vars

\* C17 witness: a press on the row of the Option with unique_id 1 invoked the
\* callback with 1 and released the focus the menu held.
C17_Witness ==
    /\ dd_fx.op = "ButtonJustPressed"
    /\ dd_fx.action = Some(1)
    /\ dd_fx.release_focus
    /\ dd_active
    /\ ~dd_focused
    /\ dd_focus_lost

(***************************************************************************)
(* Properties of the drop-down menu with every notification delivered     *)
(* (specification SpecMenuFair).                                           *)
(***************************************************************************)

\* C19: every open() sets open_requested and notifies once; the delivery that
\* finds open_requested leaves the menu shown (active) and open_requested
\* cleared, and it asks for the temporary focus and for the clicked-off
\* events, once each, exactly when the menu was hidden before; and with the
\* notifications delivered, a requested opening leads to the menu being shown.
C19_OpenLeadsToShown ==
    /\ [][ dd_fx'.op = "open"
           => /\ dd_shared'.open_requested
              /\ dd_fx'.notified
              /\ dd_notifications' = dd_notifications + 1 ]_vars
    /\ [][ ( /\ dd_fx'.op = "CustomStateChanged"
             /\ dd_notifications' = dd_notifications - 1
             /\ dd_shared.open_requested )
           => /\ dd_active'
              /\ ~dd_shared'.open_requested
              /\ dd_fx'.steal_focus <=> ~dd_active
              /\ dd_fx'.listen_off <=> ~dd_active
              /\ dd_focused' = (dd_focused \/ ~dd_active) ]_vars
    /\ dd_shared.open_requested ~> dd_active

\* C19 witness: a hidden menu was opened, and the delivery has shown it and
\* taken the focus.
C19_Witness ==
    /\ dd_fx.op = "CustomStateChanged"
    /\ dd_fx.steal_focus
    /\ dd_fx.listen_off
    /\ dd_active
    /\ dd_focused
    /\ ~dd_shared.open_requested

(***************************************************************************)
(* Further properties of the drop-down menu (specifications SpecMenu and   *)
(* SpecMenuUnpadded).                                                      *)
(***************************************************************************)

\* The style in the shared cell, and whether a style has a positive row
\* height or a positive divider extent.
CellStyle == DropDownMenuStyle[dd_shared.style]
HasRowOrDividerExtent(style) ==
    \/ text_row_height(style) > 0
    \/ style.divider_width + 2 * style.divider_padding > 0

\* The bounds of a menu that is shown in a window of positive width and
\* height: of positive width and height, and the window itself when the
\* measured size exceeds the window in both dimensions and no delivery is
\* pending.
ShownBoundsPositive ==
    /\ dd_rect.w > 0
    /\ dd_rect.h > 0
    /\ ( /\ dd_size.w > dd_window.w
         /\ dd_size.h > dd_window.h
         /\ dd_notifications = 0
         /\ ~dd_position_changed )
          => dd_rect = Rect(0, 0, dd_window.w, dd_window.h)

\* C21 (as claimed): whenever the menu is shown with a non-empty entry list
\* and a style with positive row height or divider extent in a window of
\* positive width and height, its bounding rectangle has positive width and
\* height; when the measured size exceeds the window in both dimensions (and
\* no delivery is pending) the rectangle is the window, origin (0, 0); and
\* the measured size is zero only when the entry list is empty.
C21_ShownWithAnyExtent ==
    /\ ( /\ dd_active
         /\ dd_entries /= << >>
         /\ HasRowOrDividerExtent(CellStyle)
         /\ ~dd_shared.style_changed
         /\ dd_window.w > 0
         /\ dd_window.h > 0 )
          => ShownBoundsPositive
    /\ dd_size = Size(0, 0) => dd_entries = << >>

\* C21: whenever the menu is shown with a non-empty entry list whose measured
\* size is positive in both dimensions in a window of positive width and
\* height, its bounding rectangle has positive width and height; when the
\* measured size exceeds the window in both dimensions (and no delivery is
\* pending) the rectangle is the window, origin (0, 0); the measured size of
\* a non-empty list is positive in both dimensions when the outer padding of
\* the style it was measured with is positive, so that with such a style the
\* measured size is zero only when the entry list is empty; and the measured
\* size of an empty list is zero.
C21_ShownMenuNotCroppedAway ==
    /\ ( /\ dd_active
         /\ dd_entries /= << >>
         /\ dd_size.w > 0
         /\ dd_size.h > 0
         /\ dd_window.w > 0
         /\ dd_window.h > 0 )
          => ShownBoundsPositive
    /\ ( /\ dd_entries /= << >>
         /\ ~dd_shared.style_changed
         /\ CellStyle.outer_padding > 0 )
          => (dd_size.w > 0 /\ dd_size.h > 0)
    /\ dd_entries = << >> => dd_size = Size(0, 0)

\* C21 witness: a shown menu, measured with a style of positive outer padding,
\* whose measured size exceeds the window in both dimensions, after the
\* deliveries.
C21_Witness ==
    /\ dd_active
    /\ dd_entries /= << >>
    /\ CellStyle.outer_padding > 0
    /\ ~dd_shared.style_changed
    /\ dd_size.w > dd_window.w
    /\ dd_size.h > dd_window.h
    /\ dd_notifications = 0
    /\ ~dd_position_changed
    /\ dd_fx.op = "CustomStateChanged"

\* C25 (as claimed): every call on the handle that writes to the shared
\* state (set_style, set_entries, open) has released its borrow of the cell
\* when it notifies the element.
C25_NotifyAfterRelease ==
    (dd_fx.op \in {"set_style", "set_entries", "open"} /\ dd_fx.notified)
        => ~dd_fx.notified_in_borrow

\* C26 (as claimed): one delivery of CustomStateChanged reads and clears the
\* pending values in the order new_entries, style_changed, open_requested,
\* and leaves all three cleared.
C26_DrainOrderContentStyleOpen ==
    dd_fx.op = "CustomStateChanged" =>
        /\ dd_fx.read_order = <<"new_entries", "style_changed", "open_requested">>
        /\ dd_shared.new_entries = None
        /\ ~dd_shared.style_changed
        /\ ~dd_shared.open_requested

\* C27: a delivery that finds new entries pending measures exactly once and
\* does not run the restyle pass, also when style_changed was pending too;
\* the entries it leaves are the pending ones built with the style that is in
\* the cell, and style_changed is cleared.
C27_NewEntriesSupersedeRestyle ==
    (dd_fx.op = "CustomStateChanged" /\ dd_fx.drained.last /= None) =>
        /\ dd_fx.measures = 1
        /\ ~dd_fx.restyled
        /\ ~dd_shared.style_changed
        /\ dd_entries = measure(DropDownMenuStyle[dd_shared.style],
                                build_entries(dd_fx.drained.last[1], dd_shared.style)).entries
        /\ dd_size = measure(DropDownMenuStyle[dd_shared.style],
                             build_entries(dd_fx.drained.last[1], dd_shared.style)).size

\* C27 witness: a delivery found new entries with an Option and a pending
\* style change, measured once and did not restyle.
C27_Witness ==
    /\ dd_fx.op = "CustomStateChanged"
    /\ dd_fx.drained.last /= None
    /\ dd_fx.style_changed
    /\ dd_fx.measures = 1
    /\ ~dd_fx.restyled
    /\ \E i \in 1..Len(dd_entries) :
           dd_entries[i].kind = "Option" /\ dd_entries[i].style = dd_shared.style

\* C29: a PositionChanged event that finds the menu shown runs layout once on
\* the current bounds and sends the view a bounds update exactly when layout
\* returns corrected bounds, which are the update; one that finds the menu
\* hidden runs no layout and sends no update.
C29_PositionChangedLayout ==
    [][ DdPositionChanged =>
          IF dd_active
          THEN /\ dd_fx'.layouts = 1
               /\ dd_fx'.set_rect = layout(dd_rect, dd_window).new_bounds
               /\ dd_rect' = BoundsAfterLayout(dd_rect, layout(dd_rect, dd_window))
          ELSE /\ dd_fx'.layouts = 0
               /\ dd_fx'.set_rect = None
               /\ dd_rect' = dd_rect ]_vars

\* C29 witness: a PositionChanged event found the shown menu with entries
\* reaching out of the window: layout ran once and the view got the corrected
\* bounds.
C29_Witness ==
    /\ dd_fx.op = "PositionChanged"
    /\ dd_active
    /\ dd_size.w > 0
    /\ dd_fx.layouts = 1
    /\ dd_fx.set_rect /= None
    /\ dd_rect = dd_fx.set_rect[1]
    /\ InsideWindow(dd_rect, dd_window)

(***************************************************************************)
(* Properties of the elements that send actions (specification SpecSend).  *)
(***************************************************************************)

\* C22: when send_action returns an error during a toggle press or a menu
\* selection, the dispatch ends there in a panic: the handler does not
\* return, the menu does not go on to release the focus, and no event is
\* handled after it, so the payload is neither sent again nor kept for later.
C22_RejectedSendIsFatal ==
    /\ [][ (tb_fx'.op = "ButtonJustPressed" /\ tb_fx'.rejected)
           => /\ tb_panicked'
              /\ tb_fx'.action /= None
              /\ ~tb_fx'.captured ]_vars
    /\ [][ (dd_fx'.op = "ButtonJustPressed" /\ dd_fx'.rejected)
           => /\ dd_panicked'
              /\ dd_fx'.action /= None
              /\ ~dd_fx'.captured
              /\ ~dd_fx'.release_focus ]_vars
    /\ [][ ~tb_panicked /\ ~dd_panicked ]_vars
    /\ [](tb_panicked => tb_fx.rejected)
    /\ [](dd_panicked => dd_fx.rejected)

\* C22 witness: the channel rejected the action of a menu selection, and the
\* dispatch has panicked with the menu still shown and focused.
C22_Witness ==
    /\ dd_panicked
    /\ dd_fx.op = "ButtonJustPressed"
    /\ dd_fx.rejected
    /\ dd_fx.action = Some(0)
    /\ dd_focused

\* C24 (as claimed): while the action callback of an element runs and the
\* action is sent, the element holds no borrow of its shared state, so a
\* callback that goes through the handle finds the cell free.
C24_CallbackOutsideBorrow ==
    /\ tb_fx.action /= None => ~tb_fx.cell_borrowed
    /\ dd_fx.action /= None => ~dd_fx.cell_borrowed

\* The number of entries of a kind, and the width of the widest Option row
\* in SubPixel-ths of a pixel (0 without an Option).
EntriesOfKind(entries, kind) ==
    Cardinality({ i \in 1..Len(entries) : entries[i].kind = kind })
WidestRow(entries, style) ==
    LET widths == { desired_padded_size(entries[i], style).w :
                        i \in { k \in 1..Len(entries) : entries[k].kind = "Option" } }
    IN  IF widths = {} THEN 0 ELSE CHOOSE w \in widths : \A v \in widths : v <= w

\* The height of a measured non-empty list and the place of its first entry:
\* outer padding + Options * row height + Dividers * (divider width + 2 *
\* divider padding) + outer padding, the first entry placed from the outer
\* padding on.
MeasuredHeightAndStart ==
    /\ Len(ms_entries) = Len(ms_given)
    /\ ms_size.h = ms_style.outer_padding
                     + EntriesOfKind(ms_entries, "Option") * text_row_height(ms_style)
                     + EntriesOfKind(ms_entries, "Divider")
                           * (ms_style.divider_width + 2 * ms_style.divider_padding)
                     + ms_style.outer_padding
    /\ StartOffset(ms_entries[1]) =
           IF ms_entries[1].kind = "Option"
           THEN ms_style.outer_padding
           ELSE ms_style.outer_padding + ms_style.divider_padding

\* C30 (as claimed): measure of a non-empty entry list returns the width of
\* the widest Option row plus twice the outer padding, and the height outer
\* padding + Options * row height + Dividers * (divider width + 2 * divider
\* padding) + outer padding, and the first entry is placed from the outer
\* padding on; measure of an empty list returns the zero size and leaves the
\* list alone.
C30_MeasuredSizeUnrounded ==
    ms_pc \in {"measured", "hit"} =>
        IF ms_given = << >>
        THEN ms_size = Size(0, 0) /\ ms_entries = << >>
        ELSE /\ SubPixel * ms_size.w =
                    WidestRow(ms_entries, ms_style) + SubPixel * (2 * ms_style.outer_padding)
             /\ MeasuredHeightAndStart

\* C30: measure of a non-empty entry list returns the width of the widest
\* Option row rounded up to a whole number of pixels plus twice the outer
\* padding (the width less the paddings is the least whole number that is
\* not below the widest row), and the height outer padding + Options * row
\* height + Dividers * (divider width + 2 * divider padding) + outer padding,
\* and the first entry is placed from the outer padding on; measure of an
\* empty list returns the zero size and leaves the list alone.
C30_MeasuredSize ==
    ms_pc \in {"measured", "hit"} =>
        IF ms_given = << >>
        THEN ms_size = Size(0, 0) /\ ms_entries = << >>
        ELSE /\ LET rows == ms_size.w - 2 * ms_style.outer_padding
                IN  /\ SubPixel * rows >= WidestRow(ms_entries, ms_style)
                    /\ SubPixel * (rows - 1) < WidestRow(ms_entries, ms_style)
             /\ MeasuredHeightAndStart

\* C30 witness: a measured list of a narrow Option, a Divider and a wide
\* Option whose width is not a whole number of pixels, with a style whose
\* paddings and row height are positive.
C30_Witness ==
    /\ ms_pc = "measured"
    /\ ms_given = << MenuOption(0), MenuDivider, MenuOption(1) >>
    /\ ms_style.outer_padding > 0
    /\ ms_style.divider_padding > 0
    /\ ms_style.divider_width > 0
    /\ text_row_height(ms_style) > 0
    /\ WidestRow(ms_entries, ms_style) = desired_padded_size(ms_entries[3], ms_style).w
    /\ WidestRow(ms_entries, ms_style) > desired_padded_size(ms_entries[1], ms_style).w
    /\ WidestRow(ms_entries, ms_style) % SubPixel /= 0
    /\ SubPixel * (ms_size.w - 2 * ms_style.outer_padding) > WidestRow(ms_entries, ms_style)
    /\ ms_entries[1].start_y = ms_style.outer_padding

\* C31 (as claimed): the hovered index is None or the index of an Option of
\* the current entry list that the pointer was hit-tested against; a drain
\* that replaced the entries, which no pointer was hit-tested against yet,
\* leaves no hovered index.
C31_HoveredIndexCurrent ==
    /\ dd_hovered_entry_index /= None =>
          /\ dd_hovered_entry_index[1] \in 1..Len(dd_entries)
          /\ dd_entries[dd_hovered_entry_index[1]].kind = "Option"
    /\ (dd_fx.op = "CustomStateChanged" /\ dd_fx.drained.last /= None) =>
          dd_hovered_entry_index = None

\* C32: a hidden menu has bounds of zero size: it is created so, a drain that
\* measures while the menu is hidden and the loss of the focus set bounds of
\* zero size at the origin the menu has, and set_position and
\* PositionChanged give a hidden menu no size.
C32_HiddenMenuHasNoSize ==
    /\ ~dd_active => (dd_rect.w = 0 /\ dd_rect.h = 0)
    /\ (dd_fx.op = "CustomStateChanged" /\ dd_fx.measures > 0 /\ ~dd_active) =>
          dd_fx.set_rect = Some(Rect(dd_rect.x, dd_rect.y, 0, 0))
    /\ dd_fx.op = "ExclusiveFocus(false)" =>
          (~dd_active /\ dd_fx.set_rect = Some(Rect(dd_rect.x, dd_rect.y, 0, 0)))
    /\ (dd_fx.op \in {"set_position", "PositionChanged"} /\ ~dd_active) =>
          dd_fx.set_rect = None

\* C32 witness: a menu with entries, which was shown with the focus, lost the
\* focus and is hidden with bounds of zero size.
C32_Witness ==
    /\ dd_fx.op = "ExclusiveFocus(false)"
    /\ ~dd_active
    /\ dd_size.w > 0
    /\ dd_size.h > 0
    /\ dd_rect.w = 0
    /\ dd_rect.h = 0

\* C33: after create and after every delivery of CustomStateChanged, the size
\* and the row offsets the element holds are those measure gives for its
\* entries with the style that is in the shared cell, and the labels of its
\* Options have that style, whatever set_style and set_entries calls came
\* before the delivery and in whatever order.
C33_CacheMatchesMeasure ==
    dd_fx.op \in {"create", "CustomStateChanged"} =>
        LET m == measure(DropDownMenuStyle[dd_shared.style], dd_entries)
        IN  /\ dd_size = m.size
            /\ dd_entries = m.entries
            /\ \A i \in 1..Len(dd_entries) :
                  dd_entries[i].kind = "Option" => dd_entries[i].style = dd_shared.style

\* C33 witness: a delivery found a style change and new entries pending and
\* left a shown menu with the size and the offsets of the new entries under the
\* new style.
C33_Witness ==
    /\ dd_fx.op = "CustomStateChanged"
    /\ dd_fx.style_changed
    /\ dd_fx.drained.last /= None
    /\ dd_active
    /\ dd_entries /= << >>
    /\ dd_size = measure(DropDownMenuStyle[dd_shared.style],
                         build_entries(dd_fx.drained.last[1], dd_shared.style)).size

\* C34: the rectangle layout returns is a fixed point of layout: a second
\* call on it, in the same window, results in that rectangle again, whether
\* the call returns it as corrected bounds or returns no correction.
C34_LayoutFixedPoint ==
    lay_pc = "twice" =>
        BoundsAfterLayout(lay_info.new_bounds[1], lay_info2) = lay_info.new_bounds[1]

\* C34 witness: a rectangle wider and higher than the window, right of and
\* below it, was clipped and moved by the first call, and the second call ran
\* on the result.
C34_Witness ==
    /\ lay_pc = "twice"
    /\ lay_window.w > 0
    /\ lay_window.h > 0
    /\ lay_bounds.x > 0
    /\ lay_bounds.y > 0
    /\ lay_info.width_clipped
    /\ lay_info.height_clipped
    /\ lay_info.new_bounds[1] = Rect(0, 0, lay_window.w, lay_window.h)
    /\ lay_info2.new_bounds = Some(lay_info.new_bounds[1])

(***************************************************************************)
(* Properties of the menu with every owed focus event delivered            *)
(* (specification SpecMenuFocusFair).                                      *)
(***************************************************************************)

\* C35: the menu becomes shown only in a delivery of CustomStateChanged that
\* finds open_requested, and hidden only in an ExclusiveFocus(false) event;
\* that event leaves active false, no hovered index and bounds of zero size
\* at the origin the menu had; a hidden menu captures no pointer event and
\* invokes no action; and once a selection or a click beside the menu has
\* released the focus, the menu is hidden in the end, unless a rejected send
\* has ended the dispatch before the focus event was delivered.
C35_ShownAndHidden ==
    /\ [][ (~dd_active /\ dd_active')
           => /\ dd_fx'.op = "CustomStateChanged"
              /\ dd_shared.open_requested
              /\ ~dd_shared'.open_requested ]_vars
    /\ [][ (dd_active /\ ~dd_active') => dd_fx'.op = "ExclusiveFocus(false)" ]_vars
    /\ [][ DdExclusiveFocusLost
           => /\ ~dd_active'
              /\ dd_hovered_entry_index' = None
              /\ dd_rect' = Rect(dd_rect.x, dd_rect.y, 0, 0)
              /\ dd_fx'.set_rect = Some(Rect(dd_rect.x, dd_rect.y, 0, 0)) ]_vars
    /\ [][ (~dd_active' /\ dd_fx'.op \in {"Moved", "PointerLeft", "ButtonJustPressed"})
           => /\ ~dd_fx'.captured
              /\ dd_fx'.action = None
              /\ ~dd_fx'.release_focus ]_vars
    /\ dd_focus_lost ~> (~dd_active \/ dd_panicked)

\* C35 witness: a menu with entries that had the focus got the
\* ExclusiveFocus(false) event it was owed: it is hidden, without a hovered
\* index, with bounds of zero size, and is owed no further event.
C35_Witness ==
    /\ dd_fx.op = "ExclusiveFocus(false)"
    /\ dd_fx.set_rect = Some(Rect(dd_rect.x, dd_rect.y, 0, 0))
    /\ dd_fx.release_focus
    /\ ~dd_active
    /\ dd_hovered_entry_index = None
    /\ dd_entries /= << >>
    /\ ~dd_focused
    /\ ~dd_focus_lost

=============================================================================
